---- MODULE Spec2Model ----
(***************************************************************************)
(* Model of the dom package of rio: node trees (htmlElement, htmlAttr,     *)
(* htmlSafe, htmlRaw, Group, nodeMapper, htmlDoctype) rendered depth-first *)
(* into an io.Writer, alone, repeatedly, by two concurrent callers, and    *)
(* through the HTTP adapter Handler; and of the Server of package rio with  *)
(* its middleware list (Use, Handler, Serve).  Strings are sequences of    *)
(* one-character strings; the NUL byte is the token "NUL" and the rune     *)
(* U+FFFD is the token "U+FFFD".                                           *)
(***************************************************************************)
EXTENDS Integers, Sequences, FiniteSets

VARIABLES tree, w, err, pc, call, first, shared, inflight, resp, logged,
          middleware, registered, handlers

\* the state of a Server: its middleware list, what Use was given so far,
\* and the handlers Handler() returned
serverVars == <<middleware, registered, handlers>>

\* the state of the dom package and of its callers
domVars == <<tree, w, err, pc, call, first, shared, inflight, resp, logged>>

vars == <<tree, w, err, pc, call, first, shared, inflight, resp, logged,
          middleware, registered, handlers>>

\* ------------------------------------------------------------------
\* Bounds of the model
\* ------------------------------------------------------------------

\* longest text / attribute value of a leaf built on its own
MaxStrLen == 3
\* longest child list of an Element or Group
MaxChildren == 2
\* longest item list of a Mapper
MaxItems == 2
\* largest failOnNthWrite of a failing sink
MaxFail == 10
\* longest tag name, attribute name or Data / Aria suffix given by a caller
MaxNameLen == 2

\* ------------------------------------------------------------------
\* Strings
\* ------------------------------------------------------------------

Chars == {"a", "<", ">", "&", "'", "\"", "NUL"}

RECURSIVE StrOfLen(_)
StrOfLen(n) == IF n = 0 THEN {<<>>}
               ELSE {Append(s, c) : s \in StrOfLen(n - 1), c \in Chars}

Strings == UNION {StrOfLen(n) : n \in 0..MaxStrLen}

RECURSIVE SeqsUpTo(_, _)
SeqsUpTo(S, n) == IF n = 0 THEN {<<>>}
                  ELSE SeqsUpTo(S, n - 1) \cup
                       {Append(s, x) : s \in {t \in SeqsUpTo(S, n - 1) : Len(t) = n - 1}, x \in S}

\* ------------------------------------------------------------------
\* Errors
\* ------------------------------------------------------------------

NoErr == "nil"
targetErr == "writer error"
errNodeRender == "error from errorNode.Render"
errAttrRender == "error from errorAttr.Render"
errAttrRenderAttribute == "error from errorAttr.RenderAttribute"
nilDeref == "panic: nil pointer dereference"

\* ------------------------------------------------------------------
\* Shared byte slices
\* ------------------------------------------------------------------

\* the package-level variables as the package initialises them; the
\* variable shared holds their current values
packageVars ==
    [bLt |-> <<"<">>,
     bGt |-> <<">">>,
     bLtSlash |-> <<"<", "/">>,
     bSpace |-> <<" ">>,
     bEqualsQuote |-> <<"=", "\"">>,
     bQuote |-> <<"\"">>,
     emptyNode |-> [kind |-> "htmlRaw", s |-> <<>>]]

bLt == shared.bLt
bGt == shared.bGt
bLtSlash == shared.bLtSlash
bSpace == shared.bSpace
bEqualsQuote == shared.bEqualsQuote
bQuote == shared.bQuote
doctypeLiteral == <<"<", "!", "D", "O", "C", "T", "Y", "P", "E", " ", "h", "t", "m", "l", ">">>

\* ------------------------------------------------------------------
\* Node constructors
\* ------------------------------------------------------------------

nil == [kind |-> "nil"]
nilHtmlAttr == [kind |-> "nilHtmlAttr"]
errorNode == [kind |-> "errorNode"]
errorAttr == [kind |-> "errorAttr"]

CreateElement(name, children) ==
    [kind |-> "htmlElement", Name |-> name, IsVoid |-> FALSE, Children |-> children]

CreateElementVoid(name, children) ==
    [kind |-> "htmlElement", Name |-> name, IsVoid |-> TRUE, Children |-> children]

CreateAttr(name, value) == [kind |-> "htmlAttr", Name |-> name, Value |-> value]

CreateAttrBoolean(name) == [kind |-> "htmlAttr", Name |-> name, Value |-> <<>>]

CreateString(value) == [kind |-> "htmlSafe", s |-> value]

CreateStringRaw(value) == [kind |-> "htmlRaw", s |-> value]

Group(nodes) == [kind |-> "Group", nodes |-> nodes]

Map(items, fn) == [kind |-> "nodeMapper", items |-> items, fn |-> fn]

Doctype(sibling) == [kind |-> "htmlDoctype", sibling |-> sibling]

\* var emptyNode Node = htmlRaw("")
emptyNode == shared.emptyNode

\* mutant: the condition is not consulted
If_always(condition, a) == a

If(condition, a) == IF condition THEN a ELSE emptyNode

Ifelse(condition, a, b) == IF condition THEN a ELSE b

\* ------------------------------------------------------------------
\* The sink: errorWriter of the tests; failOnNthWrite = 0 never fails
\* (strings.Builder, bytes.Buffer).  buf holds the accepted bytes, trace
\* the history of the render (writes, Render calls, transform calls).
\* ------------------------------------------------------------------

NewSink(failN) == [writeCount |-> 0, failOnNthWrite |-> failN, buf |-> <<>>, trace |-> <<>>]

Log(sink, e) == [sink EXCEPT !.trace = Append(@, e)]

R(sink, e) == [w |-> sink, err |-> e]

errorWriter_Write(sink, p) ==
    LET n == sink.writeCount + 1 IN
    IF n = sink.failOnNthWrite
    THEN R([sink EXCEPT !.writeCount = n,
                        !.trace = Append(@, [ev |-> "write", p |-> p, ok |-> FALSE])],
           targetErr)
    ELSE R([sink EXCEPT !.writeCount = n,
                        !.buf = @ \o p,
                        !.trace = Append(@, [ev |-> "write", p |-> p, ok |-> TRUE])],
           NoErr)

\* io.WriteString: one Write call carrying the bytes of s
WriteString(sink, s) == errorWriter_Write(sink, s)

\* the Write calls a sink has received, in order
IsWrite(e) == e.ev = "write"

RECURSIVE WritesOf(_)
WritesOf(trace) ==
    IF trace = <<>> THEN <<>>
    ELSE IF IsWrite(Head(trace)) THEN <<Head(trace)>> \o WritesOf(Tail(trace))
         ELSE WritesOf(Tail(trace))

\* the sequences of ss joined
RECURSIVE Concat(_)
Concat(ss) == IF ss = <<>> THEN <<>> ELSE Head(ss) \o Concat(Tail(ss))

\* ------------------------------------------------------------------
\* Escaping
\* ------------------------------------------------------------------

\* mutant: the apostrophe is missing from the set
needsEscaping_noApos(s) == \E i \in 1..Len(s) : s[i] \in {"\"", "&", "<", ">", "NUL"}

\* strings.ContainsAny(s, "'\"&<>\000")
needsEscaping(s) == \E i \in 1..Len(s) : s[i] \in {"'", "\"", "&", "<", ">", "NUL"}

\* mutant: the apostrophe is not replaced
htmlReplacement_noApos(c) ==
    CASE c = "NUL" -> <<"U+FFFD">>
      [] c = "\"" -> <<"&", "#", "3", "4", ";">>
      [] c = "&" -> <<"&", "a", "m", "p", ";">>
      [] c = "<" -> <<"&", "l", "t", ";">>
      [] c = ">" -> <<"&", "g", "t", ";">>
      [] OTHER -> <<>>

\* the replacement HTMLEscape writes for byte c (<<>> when c is not replaced)
htmlReplacement(c) ==
    CASE c = "NUL" -> <<"U+FFFD">>
      [] c = "\"" -> <<"&", "#", "3", "4", ";">>
      [] c = "'" -> <<"&", "#", "3", "9", ";">>
      [] c = "&" -> <<"&", "a", "m", "p", ";">>
      [] c = "<" -> <<"&", "l", "t", ";">>
      [] c = ">" -> <<"&", "g", "t", ";">>
      [] OTHER -> <<>>

\* template.HTMLEscape(w, b): for every replaced byte it writes the pending
\* run b[last:i] and then the replacement, and at the end the rest b[last:];
\* the results of these Write calls are dropped.
RECURSIVE HTMLEscapeLoop(_, _, _, _)
HTMLEscapeLoop(sink, b, i, last) ==
    IF i > Len(b)
    THEN errorWriter_Write(sink, SubSeq(b, last, Len(b))).w
    ELSE IF htmlReplacement(b[i]) = <<>>
         THEN HTMLEscapeLoop(sink, b, i + 1, last)
         ELSE LET w1 == errorWriter_Write(sink, SubSeq(b, last, i - 1)).w
                  w2 == errorWriter_Write(w1, htmlReplacement(b[i])).w
              IN HTMLEscapeLoop(w2, b, i + 1, i + 1)

HTMLEscape(sink, b) == HTMLEscapeLoop(sink, b, 1, 1)

\* ------------------------------------------------------------------
\* Leaf nodes
\* ------------------------------------------------------------------

\* mutant: the empty value is not told apart
htmlAttr_Render_alwaysValue(a, sink) ==
    IF a.kind = "nilHtmlAttr" THEN R(sink, NoErr)
    ELSE
    LET r1 == errorWriter_Write(sink, bSpace) IN
    IF r1.err # NoErr THEN r1 ELSE
    LET r2 == WriteString(r1.w, a.Name) IN
    IF r2.err # NoErr THEN r2 ELSE
    LET r3 == errorWriter_Write(r2.w, bEqualsQuote) IN
    IF r3.err # NoErr THEN r3 ELSE
    LET r4 == IF needsEscaping(a.Value)
              THEN R(HTMLEscape(r3.w, a.Value), r3.err)
              ELSE WriteString(r3.w, a.Value)
    IN
    IF r4.err # NoErr THEN r4 ELSE
    errorWriter_Write(r4.w, bQuote)

\* mutant: the space and the name go out in one write
htmlAttr_Render_joined(a, sink) ==
    IF a.kind = "nilHtmlAttr" THEN R(sink, NoErr)
    ELSE
    LET r2 == errorWriter_Write(sink, bSpace \o a.Name) IN
    IF r2.err # NoErr THEN r2 ELSE
    IF a.Value = <<>> THEN R(r2.w, NoErr) ELSE
    LET r3 == errorWriter_Write(r2.w, bEqualsQuote) IN
    IF r3.err # NoErr THEN r3 ELSE
    LET r4 == IF needsEscaping(a.Value)
              THEN R(HTMLEscape(r3.w, a.Value), r3.err)
              ELSE WriteString(r3.w, a.Value)
    IN
    IF r4.err # NoErr THEN r4 ELSE
    errorWriter_Write(r4.w, bQuote)

\* mutant: a refused write of template.HTMLEscape is returned as an error
htmlAttr_Render_checksEscape(a, sink) ==
    IF a.kind = "nilHtmlAttr" THEN R(sink, NoErr)
    ELSE
    LET r1 == errorWriter_Write(sink, bSpace) IN
    IF r1.err # NoErr THEN r1 ELSE
    LET r2 == WriteString(r1.w, a.Name) IN
    IF r2.err # NoErr THEN r2 ELSE
    IF a.Value = <<>> THEN R(r2.w, NoErr) ELSE
    LET r3 == errorWriter_Write(r2.w, bEqualsQuote) IN
    IF r3.err # NoErr THEN r3 ELSE
    LET r4 == IF needsEscaping(a.Value)
              THEN R(HTMLEscape(r3.w, a.Value),
                     IF \E i \in 1..Len(HTMLEscape(r3.w, a.Value).trace) :
                            /\ HTMLEscape(r3.w, a.Value).trace[i].ev = "write"
                            /\ ~HTMLEscape(r3.w, a.Value).trace[i].ok
                     THEN targetErr ELSE NoErr)
              ELSE WriteString(r3.w, a.Value)
    IN
    IF r4.err # NoErr THEN r4 ELSE
    errorWriter_Write(r4.w, bQuote)

\* (a *htmlAttr) Render
htmlAttr_Render(a, sink) ==
    IF a.kind = "nilHtmlAttr" THEN R(sink, NoErr)
    ELSE
    LET r1 == errorWriter_Write(sink, bSpace) IN
    IF r1.err # NoErr THEN r1 ELSE
    LET r2 == WriteString(r1.w, a.Name) IN
    IF r2.err # NoErr THEN r2 ELSE
    IF a.Value = <<>> THEN R(r2.w, NoErr) ELSE
    LET r3 == errorWriter_Write(r2.w, bEqualsQuote) IN
    IF r3.err # NoErr THEN r3 ELSE
    LET r4 == IF needsEscaping(a.Value)
              THEN R(HTMLEscape(r3.w, a.Value), r3.err)
              ELSE WriteString(r3.w, a.Value)
    IN
    IF r4.err # NoErr THEN r4 ELSE
    errorWriter_Write(r4.w, bQuote)

\* (a *htmlAttr) RenderAttribute
htmlAttr_RenderAttribute(a, sink) == htmlAttr_Render(a, sink)

\* (s htmlSafe) Render
htmlSafe_Render(n, sink) ==
    IF needsEscaping(n.s)
    THEN R(HTMLEscape(sink, n.s), NoErr)
    ELSE WriteString(sink, n.s)

\* (s htmlRaw) Render
htmlRaw_Render(n, sink) == WriteString(sink, n.s)

\* test doubles: errorNode.Render, errorAttr.Render, errorAttr.RenderAttribute
errorNode_Render(n, sink) == R(sink, errNodeRender)

errorAttr_Render(n, sink) == R(sink, errAttrRender)

errorAttr_RenderAttribute(n, sink) == R(sink, errAttrRenderAttribute)

\* child.(HtmlAttributer): the node has a RenderAttribute method
IsHtmlAttributer(n) == n.kind \in {"htmlAttr", "nilHtmlAttr", "errorAttr"}

\* ------------------------------------------------------------------
\* Composite nodes.  NodeRender is the interface call node.Render(w),
\* NodeRenderAttribute the interface call attr.RenderAttribute(w).
\* ------------------------------------------------------------------

RECURSIVE NodeRender(_, _)
RECURSIVE htmlElement_children(_, _, _)
RECURSIVE Group_loop(_, _, _)
RECURSIVE nodeMapper_loop(_, _, _)

NodeRenderAttribute(attr, sink) ==
    LET w0 == Log(sink, [ev |-> "attr", node |-> attr]) IN
    CASE attr.kind = "errorAttr" -> errorAttr_RenderAttribute(attr, w0)
      [] OTHER -> htmlAttr_RenderAttribute(attr, w0)

\* mutant: the attribute loop also takes the attributes held by a Group
RECURSIVE htmlElement_attrs_intoGroups(_, _, _)
htmlElement_attrs_intoGroups(children, i, sink) ==
    IF i > Len(children) THEN R(sink, NoErr)
    ELSE IF children[i] # nil /\ IsHtmlAttributer(children[i])
         THEN LET r == NodeRenderAttribute(children[i], sink) IN
              IF r.err # NoErr THEN r
              ELSE htmlElement_attrs_intoGroups(children, i + 1, r.w)
    ELSE IF children[i].kind = "Group"
         THEN LET r == htmlElement_attrs_intoGroups(children[i].nodes, 1, sink) IN
              IF r.err # NoErr THEN r
              ELSE htmlElement_attrs_intoGroups(children, i + 1, r.w)
    ELSE htmlElement_attrs_intoGroups(children, i + 1, sink)

\* mutant: the error of RenderAttribute is dropped and the loop goes on
RECURSIVE htmlElement_attrs_noAbort(_, _, _)
htmlElement_attrs_noAbort(children, i, sink) ==
    IF i > Len(children) THEN R(sink, NoErr)
    ELSE IF children[i] # nil /\ IsHtmlAttributer(children[i])
         THEN htmlElement_attrs_noAbort(children, i + 1,
                                        NodeRenderAttribute(children[i], sink).w)
         ELSE htmlElement_attrs_noAbort(children, i + 1, sink)

\* htmlElement.Render, first loop: the attribute children
RECURSIVE htmlElement_attrs(_, _, _)
htmlElement_attrs(children, i, sink) ==
    IF i > Len(children) THEN R(sink, NoErr)
    ELSE IF children[i] # nil /\ IsHtmlAttributer(children[i])
         THEN LET r == NodeRenderAttribute(children[i], sink) IN
              IF r.err # NoErr THEN r
              ELSE htmlElement_attrs(children, i + 1, r.w)
         ELSE htmlElement_attrs(children, i + 1, sink)

\* htmlElement.Render, second loop: the other children
htmlElement_children(children, i, sink) ==
    IF i > Len(children) THEN R(sink, NoErr)
    ELSE IF children[i] # nil /\ ~IsHtmlAttributer(children[i])
         THEN LET r == NodeRender(children[i], sink) IN
              IF r.err # NoErr THEN r
              ELSE htmlElement_children(children, i + 1, r.w)
         ELSE htmlElement_children(children, i + 1, sink)

\* mutant: the closing tag is not written
htmlElement_close_noEndTag(e, sink) ==
    IF e.IsVoid THEN R(sink, NoErr) ELSE
    htmlElement_children(e.Children, 1, sink)

\* mutant: the void flag is not consulted
htmlElement_close_ignoreVoid(e, sink) ==
    LET r5 == htmlElement_children(e.Children, 1, sink) IN
    IF r5.err # NoErr THEN r5 ELSE
    LET r6 == errorWriter_Write(r5.w, bLtSlash) IN
    IF r6.err # NoErr THEN r6 ELSE
    LET r7 == WriteString(r6.w, e.Name) IN
    IF r7.err # NoErr THEN r7 ELSE
    errorWriter_Write(r7.w, bGt)

\* htmlElement.Render from the void check to the closing tag
htmlElement_close(e, sink) ==
    IF e.IsVoid THEN R(sink, NoErr) ELSE
    LET r5 == htmlElement_children(e.Children, 1, sink) IN
    IF r5.err # NoErr THEN r5 ELSE
    LET r6 == errorWriter_Write(r5.w, bLtSlash) IN
    IF r6.err # NoErr THEN r6 ELSE
    LET r7 == WriteString(r6.w, e.Name) IN
    IF r7.err # NoErr THEN r7 ELSE
    errorWriter_Write(r7.w, bGt)

\* mutant: the tag name is escaped like a text
htmlElement_Render_escapesName(e, sink) ==
    LET r1 == errorWriter_Write(sink, bLt) IN
    IF r1.err # NoErr THEN r1 ELSE
    LET r2 == IF needsEscaping(e.Name)
              THEN R(HTMLEscape(r1.w, e.Name), NoErr)
              ELSE WriteString(r1.w, e.Name)
    IN
    IF r2.err # NoErr THEN r2 ELSE
    LET r3 == htmlElement_attrs(e.Children, 1, r2.w) IN
    IF r3.err # NoErr THEN r3 ELSE
    LET r4 == errorWriter_Write(r3.w, bGt) IN
    IF r4.err # NoErr THEN r4 ELSE
    htmlElement_close(e, r4.w)

\* mutant: one pass over the children, each rendered where it stands
htmlElement_Render_inOrder(e, sink) ==
    LET r1 == errorWriter_Write(sink, bLt) IN
    IF r1.err # NoErr THEN r1 ELSE
    LET r2 == WriteString(r1.w, e.Name) IN
    IF r2.err # NoErr THEN r2 ELSE
    LET r4 == errorWriter_Write(r2.w, bGt) IN
    IF r4.err # NoErr THEN r4 ELSE
    IF e.IsVoid THEN R(r4.w, NoErr) ELSE
    LET r5 == Group_loop(e.Children, 1, r4.w) IN
    IF r5.err # NoErr THEN r5 ELSE
    LET r6 == errorWriter_Write(r5.w, bLtSlash) IN
    IF r6.err # NoErr THEN r6 ELSE
    LET r7 == WriteString(r6.w, e.Name) IN
    IF r7.err # NoErr THEN r7 ELSE
    errorWriter_Write(r7.w, bGt)

\* (e *htmlElement) Render
htmlElement_Render(e, sink) ==
    LET r1 == errorWriter_Write(sink, bLt) IN
    IF r1.err # NoErr THEN r1 ELSE
    LET r2 == WriteString(r1.w, e.Name) IN
    IF r2.err # NoErr THEN r2 ELSE
    LET r3 == htmlElement_attrs(e.Children, 1, r2.w) IN
    IF r3.err # NoErr THEN r3 ELSE
    LET r4 == errorWriter_Write(r3.w, bGt) IN
    IF r4.err # NoErr THEN r4 ELSE
    htmlElement_close(e, r4.w)

\* mutant: nil entries are rendered like any other
RECURSIVE Group_loop_noNilCheck(_, _, _)
Group_loop_noNilCheck(nodes, i, sink) ==
    IF i > Len(nodes) THEN R(sink, NoErr)
    ELSE LET r == NodeRender(nodes[i], sink) IN
         IF r.err # NoErr THEN r
         ELSE Group_loop_noNilCheck(nodes, i + 1, r.w)

\* mutant: a node's error does not stop the loop
RECURSIVE Group_loop_noAbort(_, _, _)
Group_loop_noAbort(nodes, i, sink) ==
    IF i > Len(nodes) THEN R(sink, NoErr)
    ELSE IF nodes[i] # nil
         THEN LET r == NodeRender(nodes[i], sink)
                  rest == Group_loop_noAbort(nodes, i + 1, r.w)
              IN IF r.err # NoErr THEN R(rest.w, r.err) ELSE rest
         ELSE Group_loop_noAbort(nodes, i + 1, sink)

\* (g Group) Render
Group_loop(nodes, i, sink) ==
    IF i > Len(nodes) THEN R(sink, NoErr)
    ELSE IF nodes[i] # nil
         THEN LET r == NodeRender(nodes[i], sink) IN
              IF r.err # NoErr THEN r
              ELSE Group_loop(nodes, i + 1, r.w)
         ELSE Group_loop(nodes, i + 1, sink)

Group_Render(g, sink) == Group_loop(g.nodes, 1, sink)

\* mutant: a node's error does not stop the loop
RECURSIVE nodeMapper_loop_noAbort(_, _, _)
nodeMapper_loop_noAbort(nm, i, sink) ==
    IF i > Len(nm.items) THEN R(sink, NoErr)
    ELSE LET w0 == Log(sink, [ev |-> "fn", item |-> nm.items[i], at |-> i])
             node == nm.fn[nm.items[i]]
         IN IF node # nil
            THEN LET r == NodeRender(node, w0)
                     rest == nodeMapper_loop_noAbort(nm, i + 1, r.w)
                 IN IF r.err # NoErr THEN R(rest.w, r.err) ELSE rest
            ELSE nodeMapper_loop_noAbort(nm, i + 1, w0)

\* (nm *nodeMapper[T]) Render
nodeMapper_loop(nm, i, sink) ==
    IF i > Len(nm.items) THEN R(sink, NoErr)
    ELSE LET w0 == Log(sink, [ev |-> "fn", item |-> nm.items[i], at |-> i])
             node == nm.fn[nm.items[i]]
         IN IF node # nil
            THEN LET r == NodeRender(node, w0) IN
                 IF r.err # NoErr THEN r
                 ELSE nodeMapper_loop(nm, i + 1, r.w)
            ELSE nodeMapper_loop(nm, i + 1, w0)

\* mutant: every item is transformed before the first node is rendered
RECURSIVE TransformAll(_, _, _)
TransformAll(nm, i, sink) ==
    IF i > Len(nm.items) THEN sink
    ELSE TransformAll(nm, i + 1, Log(sink, [ev |-> "fn", item |-> nm.items[i], at |-> i]))

nodeMapper_Render_eager(nm, sink) ==
    Group_loop([i \in 1..Len(nm.items) |-> nm.fn[nm.items[i]]], 1, TransformAll(nm, 1, sink))

nodeMapper_Render(nm, sink) == nodeMapper_loop(nm, 1, sink)

\* mutant: the result of writing the literal is not checked
htmlDoctype_Render_noCheck(d, sink) ==
    LET r1 == WriteString(sink, doctypeLiteral) IN
    IF d.sibling # nil THEN NodeRender(d.sibling, r1.w)
    ELSE R(r1.w, NoErr)

\* (d *htmlDoctype) Render
htmlDoctype_Render(d, sink) ==
    LET r1 == WriteString(sink, doctypeLiteral) IN
    IF r1.err # NoErr THEN r1 ELSE
    IF d.sibling # nil THEN NodeRender(d.sibling, r1.w)
    ELSE R(r1.w, NoErr)

NodeRender(node, sink) ==
    LET w0 == Log(sink, [ev |-> "enter", node |-> node])
        r == CASE node.kind = "htmlElement" -> htmlElement_Render(node, w0)
               [] node.kind = "htmlAttr" -> htmlAttr_Render(node, w0)
               [] node.kind = "nilHtmlAttr" -> htmlAttr_Render(node, w0)
               [] node.kind = "htmlSafe" -> htmlSafe_Render(node, w0)
               [] node.kind = "htmlRaw" -> htmlRaw_Render(node, w0)
               [] node.kind = "Group" -> Group_Render(node, w0)
               [] node.kind = "nodeMapper" -> nodeMapper_Render(node, w0)
               [] node.kind = "htmlDoctype" -> htmlDoctype_Render(node, w0)
               [] node.kind = "errorNode" -> errorNode_Render(node, w0)
               [] node.kind = "errorAttr" -> errorAttr_Render(node, w0)
               [] OTHER -> R(w0, nilDeref)
    IN R(Log(r.w, [ev |-> "exit", node |-> node, err |-> r.err]), r.err)

\* mutant: String gives the empty string when Render returned an error
NodeString_okOnly(node) ==
    IF node.kind = "htmlRaw" THEN node.s
    ELSE IF NodeRender(node, NewSink(0)).err # NoErr THEN <<>>
    ELSE NodeRender(node, NewSink(0)).w.buf

\* String(): Render into a strings.Builder, the error dropped
\* (htmlRaw.String returns the string itself)
NodeString(node) ==
    IF node.kind = "htmlRaw" THEN node.s
    ELSE NodeRender(node, NewSink(0)).w.buf

\* ------------------------------------------------------------------
\* The trees the application builds
\* ------------------------------------------------------------------

attrName == <<"c">>
elemName == <<"d">>

\* a nested element, a void element with content, and a leaf of every kind
nestedP == CreateElement(<<"p">>, <<CreateAttr(attrName, <<"x">>), CreateString(<<"<">>)>>)
nestedBr == CreateElementVoid(<<"b", "r">>, <<CreateString(<<"a">>)>>)

LeafPool == {nil, nilHtmlAttr, errorNode, errorAttr,
             CreateString(<<"a">>), CreateString(<<"<">>),
             CreateAttr(attrName, <<"x">>), CreateAttr(attrName, <<"<">>),
             CreateAttrBoolean(attrName)}

\* transforms of a Mapper: item i is mapped to the i-th node
fnContent == <<CreateString(<<"a">>), nil, errorNode, CreateString(<<"<">>), nestedP>>
fnAttrs == <<CreateAttr(attrName, <<"x">>), nil, errorAttr, CreateStringRaw(<<"<">>), nestedBr>>
MapFns == {fnContent, fnAttrs}
Items == 1..5

nestedMap == Map(<<1, 2, 4>>, fnContent)

ChildPool == LeafPool \cup {nestedP, nestedBr, nestedMap}

ChildLists == SeqsUpTo(ChildPool, MaxChildren)
ItemLists == SeqsUpTo(Items, MaxItems)

\* the element factories: the function, the tag name it passes on and
\* whether it calls CreateElementVoid
ElementFactories ==
    {    [fn |-> "A", name |-> <<"a">>, void |-> FALSE],
     [fn |-> "Abbr", name |-> <<"a", "b", "b", "r">>, void |-> FALSE],
     [fn |-> "Address", name |-> <<"a", "d", "d", "r", "e", "s", "s">>, void |-> FALSE],
     [fn |-> "Area", name |-> <<"a", "r", "e", "a">>, void |-> TRUE],
     [fn |-> "Article", name |-> <<"a", "r", "t", "i", "c", "l", "e">>, void |-> FALSE],
     [fn |-> "Aside", name |-> <<"a", "s", "i", "d", "e">>, void |-> FALSE],
     [fn |-> "Audio", name |-> <<"a", "u", "d", "i", "o">>, void |-> FALSE],
     [fn |-> "B", name |-> <<"b">>, void |-> FALSE],
     [fn |-> "Base", name |-> <<"b", "a", "s", "e">>, void |-> TRUE],
     [fn |-> "Bdi", name |-> <<"b", "d", "i">>, void |-> FALSE],
     [fn |-> "Bdo", name |-> <<"b", "d", "o">>, void |-> FALSE],
     [fn |-> "Blockquote", name |-> <<"b", "l", "o", "c", "k", "q", "u", "o", "t", "e">>, void |-> FALSE],
     [fn |-> "Body", name |-> <<"b", "o", "d", "y">>, void |-> FALSE],
     [fn |-> "Br", name |-> <<"b", "r">>, void |-> TRUE],
     [fn |-> "Button", name |-> <<"b", "u", "t", "t", "o", "n">>, void |-> FALSE],
     [fn |-> "Canvas", name |-> <<"c", "a", "n", "v", "a", "s">>, void |-> FALSE],
     [fn |-> "Caption", name |-> <<"c", "a", "p", "t", "i", "o", "n">>, void |-> FALSE],
     [fn |-> "Cite", name |-> <<"c", "i", "t", "e">>, void |-> FALSE],
     [fn |-> "Code", name |-> <<"c", "o", "d", "e">>, void |-> FALSE],
     [fn |-> "Col", name |-> <<"c", "o", "l">>, void |-> TRUE],
     [fn |-> "Colgroup", name |-> <<"c", "o", "l", "g", "r", "o", "u", "p">>, void |-> FALSE],
     [fn |-> "DataEl", name |-> <<"d", "a", "t", "a">>, void |-> FALSE],
     [fn |-> "Datalist", name |-> <<"d", "a", "t", "a", "l", "i", "s", "t">>, void |-> FALSE],
     [fn |-> "Dd", name |-> <<"d", "d">>, void |-> FALSE],
     [fn |-> "Del", name |-> <<"d", "e", "l">>, void |-> FALSE],
     [fn |-> "Details", name |-> <<"d", "e", "t", "a", "i", "l", "s">>, void |-> FALSE],
     [fn |-> "Dfn", name |-> <<"d", "f", "n">>, void |-> FALSE],
     [fn |-> "Dialog", name |-> <<"d", "i", "a", "l", "o", "g">>, void |-> FALSE],
     [fn |-> "Div", name |-> <<"d", "i", "v">>, void |-> FALSE],
     [fn |-> "Dl", name |-> <<"d", "l">>, void |-> FALSE],
     [fn |-> "Dt", name |-> <<"d", "t">>, void |-> FALSE],
     [fn |-> "Em", name |-> <<"e", "m">>, void |-> FALSE],
     [fn |-> "Embed", name |-> <<"e", "m", "b", "e", "d">>, void |-> TRUE],
     [fn |-> "Fieldset", name |-> <<"f", "i", "e", "l", "d", "s", "e", "t">>, void |-> FALSE],
     [fn |-> "Figcaption", name |-> <<"f", "i", "g", "c", "a", "p", "t", "i", "o", "n">>, void |-> FALSE],
     [fn |-> "Figure", name |-> <<"f", "i", "g", "u", "r", "e">>, void |-> FALSE],
     [fn |-> "Footer", name |-> <<"f", "o", "o", "t", "e", "r">>, void |-> FALSE],
     [fn |-> "Form", name |-> <<"f", "o", "r", "m">>, void |-> FALSE],
     [fn |-> "H1", name |-> <<"h", "1">>, void |-> FALSE],
     [fn |-> "H2", name |-> <<"h", "2">>, void |-> FALSE],
     [fn |-> "H3", name |-> <<"h", "3">>, void |-> FALSE],
     [fn |-> "H4", name |-> <<"h", "4">>, void |-> FALSE],
     [fn |-> "H5", name |-> <<"h", "5">>, void |-> FALSE],
     [fn |-> "H6", name |-> <<"h", "6">>, void |-> FALSE],
     [fn |-> "Head", name |-> <<"h", "e", "a", "d">>, void |-> FALSE],
     [fn |-> "Header", name |-> <<"h", "e", "a", "d", "e", "r">>, void |-> FALSE],
     [fn |-> "Hr", name |-> <<"h", "r">>, void |-> TRUE],
     [fn |-> "Html", name |-> <<"h", "t", "m", "l">>, void |-> FALSE],
     [fn |-> "I", name |-> <<"i">>, void |-> FALSE],
     [fn |-> "Iframe", name |-> <<"i", "f", "r", "a", "m", "e">>, void |-> TRUE],
     [fn |-> "Img", name |-> <<"i", "m", "g">>, void |-> TRUE],
     [fn |-> "Input", name |-> <<"i", "n", "p", "u", "t">>, void |-> TRUE],
     [fn |-> "Ins", name |-> <<"i", "n", "s">>, void |-> FALSE],
     [fn |-> "Kbd", name |-> <<"k", "b", "d">>, void |-> FALSE],
     [fn |-> "Label", name |-> <<"l", "a", "b", "e", "l">>, void |-> FALSE],
     [fn |-> "Legend", name |-> <<"l", "e", "g", "e", "n", "d">>, void |-> FALSE],
     [fn |-> "Li", name |-> <<"l", "i">>, void |-> FALSE],
     [fn |-> "Link", name |-> <<"l", "i", "n", "k">>, void |-> TRUE],
     [fn |-> "Main", name |-> <<"m", "a", "i", "n">>, void |-> FALSE],
     [fn |-> "MapEl", name |-> <<"m", "a", "p">>, void |-> FALSE],
     [fn |-> "Mark", name |-> <<"m", "a", "r", "k">>, void |-> FALSE],
     [fn |-> "Menu", name |-> <<"m", "e", "n", "u">>, void |-> FALSE],
     [fn |-> "Meta", name |-> <<"m", "e", "t", "a">>, void |-> TRUE],
     [fn |-> "Meter", name |-> <<"m", "e", "t", "e", "r">>, void |-> FALSE],
     [fn |-> "Nav", name |-> <<"n", "a", "v">>, void |-> FALSE],
     [fn |-> "Noscript", name |-> <<"n", "o", "s", "c", "r", "i", "p", "t">>, void |-> FALSE],
     [fn |-> "Object", name |-> <<"o", "b", "j", "e", "c", "t">>, void |-> FALSE],
     [fn |-> "Ol", name |-> <<"o", "l">>, void |-> FALSE],
     [fn |-> "Optgroup", name |-> <<"o", "p", "t", "g", "r", "o", "u", "p">>, void |-> FALSE],
     [fn |-> "Option", name |-> <<"o", "p", "t", "i", "o", "n">>, void |-> FALSE],
     [fn |-> "Output", name |-> <<"o", "u", "t", "p", "u", "t">>, void |-> FALSE],
     [fn |-> "P", name |-> <<"p">>, void |-> FALSE],
     [fn |-> "Param", name |-> <<"p", "a", "r", "a", "m">>, void |-> TRUE],
     [fn |-> "Picture", name |-> <<"p", "i", "c", "t", "u", "r", "e">>, void |-> FALSE],
     [fn |-> "Pre", name |-> <<"p", "r", "e">>, void |-> FALSE],
     [fn |-> "Progress", name |-> <<"p", "r", "o", "g", "r", "e", "s", "s">>, void |-> FALSE],
     [fn |-> "Q", name |-> <<"q">>, void |-> FALSE],
     [fn |-> "S", name |-> <<"s">>, void |-> FALSE],
     [fn |-> "Samp", name |-> <<"s", "a", "m", "p">>, void |-> FALSE],
     [fn |-> "Script", name |-> <<"s", "c", "r", "i", "p", "t">>, void |-> FALSE],
     [fn |-> "Section", name |-> <<"s", "e", "c", "t", "i", "o", "n">>, void |-> FALSE],
     [fn |-> "Select", name |-> <<"s", "e", "l", "e", "c", "t">>, void |-> FALSE],
     [fn |-> "SlotEl", name |-> <<"s", "l", "o", "t">>, void |-> FALSE],
     [fn |-> "Small", name |-> <<"s", "m", "a", "l", "l">>, void |-> FALSE],
     [fn |-> "Source", name |-> <<"s", "o", "u", "r", "c", "e">>, void |-> TRUE],
     [fn |-> "Span", name |-> <<"s", "p", "a", "n">>, void |-> FALSE],
     [fn |-> "Strong", name |-> <<"s", "t", "r", "o", "n", "g">>, void |-> FALSE],
     [fn |-> "StyleEl", name |-> <<"s", "t", "y", "l", "e">>, void |-> FALSE],
     [fn |-> "Sub", name |-> <<"s", "u", "b">>, void |-> FALSE],
     [fn |-> "Summary", name |-> <<"s", "u", "m", "m", "a", "r", "y">>, void |-> FALSE],
     [fn |-> "Sup", name |-> <<"s", "u", "p">>, void |-> FALSE],
     [fn |-> "Table", name |-> <<"t", "a", "b", "l", "e">>, void |-> FALSE],
     [fn |-> "Tbody", name |-> <<"t", "b", "o", "d", "y">>, void |-> FALSE],
     [fn |-> "Td", name |-> <<"t", "d">>, void |-> FALSE],
     [fn |-> "Template", name |-> <<"t", "e", "m", "p", "l", "a", "t", "e">>, void |-> FALSE],
     [fn |-> "Textarea", name |-> <<"t", "e", "x", "t", "a", "r", "e", "a">>, void |-> FALSE],
     [fn |-> "Tfoot", name |-> <<"t", "f", "o", "o", "t">>, void |-> FALSE],
     [fn |-> "Th", name |-> <<"t", "h">>, void |-> FALSE],
     [fn |-> "Thead", name |-> <<"t", "h", "e", "a", "d">>, void |-> FALSE],
     [fn |-> "Time", name |-> <<"t", "i", "m", "e">>, void |-> FALSE],
     [fn |-> "TitleEl", name |-> <<"t", "i", "t", "l", "e">>, void |-> FALSE],
     [fn |-> "Tr", name |-> <<"t", "r">>, void |-> FALSE],
     [fn |-> "Track", name |-> <<"t", "r", "a", "c", "k">>, void |-> TRUE],
     [fn |-> "U", name |-> <<"u">>, void |-> FALSE],
     [fn |-> "Ul", name |-> <<"u", "l">>, void |-> FALSE],
     [fn |-> "Var", name |-> <<"v", "a", "r">>, void |-> FALSE],
     [fn |-> "Video", name |-> <<"v", "i", "d", "e", "o">>, void |-> FALSE],
     [fn |-> "Wbr", name |-> <<"w", "b", "r">>, void |-> FALSE]}

\* mutant: the void elements are those of the HTML standard
Factory_htmlStandard(f, children) ==
    IF f.name \in {<<"w", "b", "r">>} \/ (f.void /\ f.name # <<"i", "f", "r", "a", "m", "e">>)
    THEN CreateElementVoid(f.name, children)
    ELSE CreateElement(f.name, children)

\* A(children...), Abbr(children...), ..., Wbr(children...)
Factory(f, children) ==
    IF f.void THEN CreateElementVoid(f.name, children)
    ELSE CreateElement(f.name, children)

\* the children a factory is called with
FactoryChildLists ==
    {<<>>,
     <<CreateAttr(attrName, <<"x">>)>>,
     <<CreateString(<<"a">>), CreateAttr(attrName, <<"x">>)>>}

byFactory == [op |-> "Factory", c |-> TRUE, a |-> nil, b |-> nil]

\* Data(name, v) and Aria(name, v)
Data(name, v) == CreateAttr(<<"d", "a", "t", "a", "-">> \o name, v)
Aria(name, v) == CreateAttr(<<"a", "r", "i", "a", "-">> \o name, v)

\* the names a caller may pass: any string, the empty one included
Names == UNION {StrOfLen(n) : n \in 0..MaxNameLen}

\* the values given to an attribute with such a name
NamedValues == {<<>>, <<"x">>, <<"<">>}

byNamed(op, name) == [op |-> op, c |-> TRUE, a |-> nil, b |-> nil, name |-> name]

\* an attribute that is not a direct child of the Element: held by a
\* Group, produced by a Mapper, or the sibling of a Doctype
wrappedAttr == CreateAttr(attrName, <<"x">>)

WrappedAttrs == {Group(<<wrappedAttr>>), Map(<<1>>, fnAttrs), Doctype(wrappedAttr)}

\* child lists with such a node, alone, after a text, and before a direct
\* attribute; and the attribute passed through If
WrappingChildLists ==
    {<<x>> : x \in WrappedAttrs}
    \cup {<<CreateString(<<"a">>), x>> : x \in WrappedAttrs}
    \cup {<<x, CreateAttrBoolean(attrName)>> : x \in WrappedAttrs}
    \cup {<<If(TRUE, wrappedAttr)>>, <<CreateString(<<"a">>), If(TRUE, wrappedAttr)>>}

byWrapping == [op |-> "Wrap", c |-> TRUE, a |-> wrappedAttr, b |-> nil]


\* ------------------------------------------------------------------
\* State machine: the application builds a tree, then renders it into
\* a sink that never fails (failN = 0) or fails on its failN-th write.
\* ------------------------------------------------------------------

\* ------------------------------------------------------------------
\* The HTTP adapter: Handler(next) turns a callback returning a Node into
\* an http.Handler.  The response is the one httptest.NewRecorder records:
\* the first Write sends the header with status 200 unless WriteHeader was
\* called before, and a WriteHeader after the header was sent is ignored.
\* ------------------------------------------------------------------

StatusOK == 200
StatusInternalServerError == 500

\* http.StatusText(500) and the newline fmt.Fprintln adds, as two tokens
errorBody == <<"Internal Server Error", "\n">>

\* httptest.NewRecorder(); node is what the callback returned
NewRecorder == [Code |-> StatusOK, wroteHeader |-> FALSE, Body |-> <<>>]

ResponseRecorder_WriteHeader(rr, code) ==
    IF rr.wroteHeader THEN rr
    ELSE [rr EXCEPT !.Code = code, !.wroteHeader = TRUE]

ResponseRecorder_Write(rr, p) ==
    [ResponseRecorder_WriteHeader(rr, StatusOK) EXCEPT !.Body = @ \o p]

\* the Write calls of a render, received by the recorder one after another
RECURSIVE ResponseRecorder_WriteAll(_, _)
ResponseRecorder_WriteAll(rr, writes) ==
    IF writes = <<>> THEN rr
    ELSE ResponseRecorder_WriteAll(ResponseRecorder_Write(rr, Head(writes).p), Tail(writes))

\* http.Error(w, error, code): WriteHeader(code), then Fprintln(w, error)
http_Error(rr, code) ==
    ResponseRecorder_Write(ResponseRecorder_WriteHeader(rr, code), errorBody)

\* Handler from "err := node.Render(w)" on: r is the outcome of the render,
\* whose writes the ResponseWriter has received
Handler_rendered(r) ==
    IF r.err # NoErr
    THEN [rr |-> http_Error(ResponseRecorder_WriteAll(NewRecorder, WritesOf(r.w.trace)),
                            StatusInternalServerError),
          w |-> r.w, err |-> r.err]
    ELSE [rr |-> ResponseRecorder_WriteAll(NewRecorder, WritesOf(r.w.trace)),
          w |-> r.w, err |-> r.err]

\* the http.Handler that Handler(next) returns, run on the node the callback
\* gave: the response, the sink history of the render and the error of Render
Handler(node) ==
    IF node = nil
    THEN [rr |-> http_Error(NewRecorder, StatusInternalServerError),
          w |-> NewSink(0), err |-> NoErr]
    ELSE Handler_rendered(NodeRender(node, NewSink(0)))

\* no request served
noResponse == [node |-> nil, Code |-> 0, wroteHeader |-> FALSE, Body |-> <<>>]

\* how the tree was obtained: from a constructor, or from If / Ifelse with
\* the condition c and the nodes a and b
byConstructor == [op |-> "Create", c |-> TRUE, a |-> nil, b |-> nil]

\* what the first render of the tree gave: the sink's failing write, the
\* bytes it accepted and the error returned
notRendered == [failOnNthWrite |-> 0, buf |-> <<>>, err |-> NoErr]

Init ==
    /\ tree = nil
    /\ w = NewSink(0)
    /\ err = NoErr
    /\ pc = "init"
    /\ call = byConstructor
    /\ first = notRendered
    /\ shared = packageVars
    /\ inflight = <<>>
    /\ resp = noResponse
    /\ logged = <<>>
    /\ middleware = <<>>
    /\ registered = <<>>
    /\ handlers = <<>>

BuiltBy(how, node) ==
    /\ tree' = node
    /\ w' = NewSink(0)
    /\ err' = NoErr
    /\ pc' = "built"
    /\ call' = how
    /\ first' = notRendered
    /\ resp' = noResponse
    /\ UNCHANGED <<shared, inflight, logged, serverVars>>

Built(node) == BuiltBy(byConstructor, node)

NewString ==
    /\ pc = "init"
    /\ \E s \in Strings : Built(CreateString(s))

NewStringRaw ==
    /\ pc = "init"
    /\ \E s \in Strings : Built(CreateStringRaw(s))

NewAttr ==
    /\ pc = "init"
    /\ \E v \in Strings : Built(CreateAttr(attrName, v))

NewAttrBoolean ==
    /\ pc = "init"
    /\ Built(CreateAttrBoolean(attrName))

NewElement ==
    /\ pc = "init"
    /\ \E children \in ChildLists : Built(CreateElement(elemName, children))

NewElementVoid ==
    /\ pc = "init"
    /\ \E children \in ChildLists : Built(CreateElementVoid(elemName, children))

NewGroup ==
    /\ pc = "init"
    /\ \E nodes \in ChildLists : Built(Group(nodes))

NewMap ==
    /\ pc = "init"
    /\ \E items \in ItemLists, fn \in MapFns : Built(Map(items, fn))

NewDoctype ==
    /\ pc = "init"
    /\ \E sibling \in ChildPool : Built(Doctype(sibling))

\* If(c, a) and Ifelse(c, a, b) over nodes built before
NewIf ==
    /\ pc = "init"
    /\ \E c \in BOOLEAN, a \in ChildPool :
         BuiltBy([op |-> "If", c |-> c, a |-> a, b |-> nil], If(c, a))

NewIfelse ==
    /\ pc = "init"
    /\ \E c \in BOOLEAN, a \in ChildPool, b \in ChildPool :
         BuiltBy([op |-> "Ifelse", c |-> c, a |-> a, b |-> b], Ifelse(c, a, b))

\* a tree built by an element factory
NewFromFactory ==
    /\ pc = "init"
    /\ \E f \in ElementFactories, children \in FactoryChildLists :
         BuiltBy(byFactory, Factory(f, children))

\* an Element, void or not, over a wrapped attribute
NewWrapping ==
    /\ pc = "init"
    /\ \E children \in WrappingChildLists :
         \/ BuiltBy(byWrapping, CreateElement(elemName, children))
         \/ BuiltBy(byWrapping, CreateElementVoid(elemName, children))

\* an Element or an attribute with a name of the caller's choice
NewNamed ==
    /\ pc = "init"
    /\ \E name \in Names :
         \/ BuiltBy(byNamed("CreateElement", name), CreateElement(name, <<>>))
         \/ BuiltBy(byNamed("CreateElementVoid", name), CreateElementVoid(name, <<>>))
         \/ \E v \in NamedValues :
              \/ BuiltBy(byNamed("CreateAttr", name), CreateAttr(name, v))
              \/ BuiltBy(byNamed("Data", name), Data(name, v))
              \/ BuiltBy(byNamed("Aria", name), Aria(name, v))

NotHtmlAttributer(n) == ~IsHtmlAttributer(n)

\* the nodes of a child list with the attributes moved to the front
Partitioned(node) ==
    IF node.kind = "htmlElement"
    THEN [node EXCEPT !.Children = SelectSeq(@, IsHtmlAttributer)
                                   \o SelectSeq(@, NotHtmlAttributer)]
    ELSE node

\* a Mapper whose items have been used up
Spent(node) ==
    IF node.kind = "nodeMapper" THEN [node EXCEPT !.items = <<>>] ELSE node

\* mutant: Render sorts the child list of the Element in place
DoRender_reorders ==
    /\ pc = "built"
    /\ tree # nil
    /\ \E failN \in 0..MaxFail :
         \E r \in {NodeRender(tree, NewSink(failN))} :
         /\ w' = r.w
         /\ err' = r.err
         /\ first' = [failOnNthWrite |-> failN, buf |-> r.w.buf, err |-> r.err]
    /\ pc' = "rendered"
    /\ tree' = Partitioned(tree)
    /\ UNCHANGED <<call, shared, inflight, resp, logged, serverVars>>

\* mutant: Render consumes the item list of the Mapper
DoRender_consumes ==
    /\ pc = "built"
    /\ tree # nil
    /\ \E failN \in 0..MaxFail :
         \E r \in {NodeRender(tree, NewSink(failN))} :
         /\ w' = r.w
         /\ err' = r.err
         /\ first' = [failOnNthWrite |-> failN, buf |-> r.w.buf, err |-> r.err]
    /\ pc' = "rendered"
    /\ tree' = Spent(tree)
    /\ UNCHANGED <<call, shared, inflight, resp, logged, serverVars>>

\* node.Render(w) on a fresh sink
DoRender ==
    /\ pc = "built"
    /\ tree # nil
    /\ \E failN \in 0..MaxFail :
         \E r \in {NodeRender(tree, NewSink(failN))} :
         /\ w' = r.w
         /\ err' = r.err
         /\ first' = [failOnNthWrite |-> failN, buf |-> r.w.buf, err |-> r.err]
    /\ pc' = "rendered"
    /\ UNCHANGED <<tree, call, shared, inflight, resp, logged, serverVars>>

\* the same tree rendered again, into a new strings.Builder
Rerender ==
    /\ pc \in {"rendered", "rerendered"}
    /\ \E r \in {NodeRender(tree, NewSink(0))} :
         /\ w' = r.w
         /\ err' = r.err
    /\ pc' = "rerendered"
    /\ UNCHANGED <<tree, call, first, shared, inflight, resp, logged, serverVars>>

\* the variants of the package, which have a String method
HasString(node) ==
    node.kind \in {"htmlElement", "htmlAttr", "nilHtmlAttr", "htmlSafe", "htmlRaw",
                   "Group", "nodeMapper", "htmlDoctype"}

\* node.String(): w.buf holds the string returned; no sink is involved and
\* no error comes back
DoString ==
    /\ pc = "built"
    /\ HasString(tree)
    /\ \E s \in {NodeString(tree)} : w' = [NewSink(0) EXCEPT !.buf = s]
    /\ err' = NoErr
    /\ pc' = "stringed"
    /\ UNCHANGED <<tree, call, first, shared, inflight, resp, logged, serverVars>>

\* fn.ServeHTTP(rr, req): the callback returns the tree built, or nil
ServeHTTP ==
    /\ pc = "built"
    /\ \E node \in {tree, nil} :
         \E h \in {Handler(node)} :
         /\ resp' = [node |-> node, Code |-> h.rr.Code,
                     wroteHeader |-> h.rr.wroteHeader, Body |-> h.rr.Body]
         /\ w' = h.w
         /\ err' = h.err
    /\ pc' = "served"
    /\ UNCHANGED <<tree, call, first, shared, inflight, logged, serverVars>>

\* the tree is dropped after use; the next one is built from scratch
Discard ==
    /\ pc \in {"built", "rendered", "rerendered", "served", "stringed"}
    /\ tree' = nil
    /\ w' = NewSink(0)
    /\ err' = NoErr
    /\ pc' = "init"
    /\ call' = byConstructor
    /\ first' = notRendered
    /\ resp' = noResponse
    /\ UNCHANGED <<shared, inflight, logged, serverVars>>

Next ==
    \/ NewString
    \/ NewStringRaw
    \/ NewAttr
    \/ NewAttrBoolean
    \/ NewElement
    \/ NewElementVoid
    \/ NewGroup
    \/ NewMap
    \/ NewDoctype
    \/ NewIf
    \/ NewIfelse
    \/ NewFromFactory
    \/ NewWrapping
    \/ NewNamed
    \/ DoRender
    \/ Rerender
    \/ DoString
    \/ ServeHTTP
    \/ Discard

Spec == Init /\ [][Next]_vars

\* ------------------------------------------------------------------
\* Vocabulary of the properties
\* ------------------------------------------------------------------

Rendered == pc = "rendered"

NeverFails == w.failOnNthWrite = 0

FailedWrite(trace) == \E i \in 1..Len(trace) : IsWrite(trace[i]) /\ ~trace[i].ok

\* the trace of a Render call without its own enter and exit events
Inner(trace) == SubSeq(trace, 2, Len(trace) - 1)

\* the Attribute variant of the data model, and an absent entry
AttributeVariant(n) == n.kind \in {"htmlAttr", "nilHtmlAttr", "errorAttr"}
Absent(n) == n.kind \in {"nil", "nilHtmlAttr"}
ContentVariant(n) == n.kind # "nil" /\ ~AttributeVariant(n)

\* what a node writes into a buffer that never fails
Rendering(n) == IF n.kind = "nil" THEN <<>> ELSE NodeRender(n, NewSink(0)).w.buf

Renderings(ns) == Concat([i \in 1..Len(ns) |-> Rendering(ns[i])])

\* the error a trace event originates: a failed sink write or a failing node
Failure(e) ==
    CASE e.ev = "write" /\ ~e.ok -> targetErr
      [] e.ev = "exit" /\ e.node.kind \in {"errorNode", "errorAttr"} -> e.err
      [] e.ev = "attr" /\ e.node.kind = "errorAttr" -> errAttrRenderAttribute
      [] OTHER -> NoErr

RECURSIVE FirstFailure(_)
FirstFailure(trace) ==
    IF trace = <<>> THEN NoErr
    ELSE IF Failure(Head(trace)) # NoErr THEN Failure(Head(trace))
         ELSE FirstFailure(Tail(trace))

\* ------------------------------------------------------------------
\* Concurrent Render calls.  A Render call is a straight run of sink
\* writes: every write whose result the code checks ends the call with the
\* writer's error when it fails, the writes made inside HTMLEscape do not,
\* and a failing node ends the call with its own error.  Program(node) is
\* that run; a call advances by one write at a time.
\* ------------------------------------------------------------------

\* w.Write(p) / io.WriteString(w, p) followed by "if err != nil { return err }"
Wr(p) == [op |-> "write", p |-> p, checked |-> TRUE, err |-> NoErr]

\* a Render or RenderAttribute that returns its own error
Fail(e) == [op |-> "fail", p |-> <<>>, checked |-> TRUE, err |-> e]

\* the Write calls of template.HTMLEscape(w, b), results dropped
EscapeOps(b) ==
    LET ws == WritesOf(HTMLEscape(NewSink(0), b).trace)
    IN [i \in 1..Len(ws) |-> [op |-> "write", p |-> ws[i].p, checked |-> FALSE, err |-> NoErr]]

\* (a *htmlAttr) Render as a run of writes
htmlAttr_Program(a) ==
    IF a.kind = "nilHtmlAttr" THEN <<>>
    ELSE <<Wr(bSpace), Wr(a.Name)>>
         \o (IF a.Value = <<>> THEN <<>>
             ELSE <<Wr(bEqualsQuote)>>
                  \o (IF needsEscaping(a.Value) THEN EscapeOps(a.Value) ELSE <<Wr(a.Value)>>)
                  \o <<Wr(bQuote)>>)

\* attr.RenderAttribute(w) as a run of writes
RenderAttribute_Program(a) ==
    IF a.kind = "errorAttr" THEN <<Fail(errAttrRenderAttribute)>>
    ELSE htmlAttr_Program(a)

\* "if node != nil", and the second loop's "child != nil" that is no attribute
IsNotNil(n) == n # nil

IsContentChild(n) == n # nil /\ ~IsHtmlAttributer(n)

RECURSIVE Program(_)
Program(node) ==
    CASE node.kind = "htmlElement" ->
           LET attrs == SelectSeq(node.Children, IsHtmlAttributer)
               others == SelectSeq(node.Children, IsContentChild)
           IN <<Wr(bLt), Wr(node.Name)>>
              \o Concat([i \in 1..Len(attrs) |-> RenderAttribute_Program(attrs[i])])
              \o <<Wr(bGt)>>
              \o (IF node.IsVoid THEN <<>>
                  ELSE Concat([i \in 1..Len(others) |-> Program(others[i])])
                       \o <<Wr(bLtSlash), Wr(node.Name), Wr(bGt)>>)
      [] node.kind \in {"htmlAttr", "nilHtmlAttr"} -> htmlAttr_Program(node)
      [] node.kind = "htmlSafe" ->
           IF needsEscaping(node.s) THEN EscapeOps(node.s) ELSE <<Wr(node.s)>>
      [] node.kind = "htmlRaw" -> <<Wr(node.s)>>
      [] node.kind = "Group" ->
           LET ns == SelectSeq(node.nodes, IsNotNil)
           IN Concat([i \in 1..Len(ns) |-> Program(ns[i])])
      [] node.kind = "nodeMapper" ->
           LET ns == SelectSeq([i \in 1..Len(node.items) |-> node.fn[node.items[i]]],
                               IsNotNil)
           IN Concat([i \in 1..Len(ns) |-> Program(ns[i])])
      [] node.kind = "htmlDoctype" ->
           <<Wr(doctypeLiteral)>>
           \o (IF node.sibling # nil THEN Program(node.sibling) ELSE <<>>)
      [] node.kind = "errorNode" -> <<Fail(errNodeRender)>>
      [] node.kind = "errorAttr" -> <<Fail(errAttrRender)>>
      [] OTHER -> <<Fail(nilDeref)>>

\* a Render call in flight: its node, its own sink, what is left to run
NewCall(node, failN) ==
    [node |-> node, ops |-> Program(node), sink |-> NewSink(failN),
     err |-> NoErr, done |-> FALSE]

\* the call runs to its next sink write, or to its return
StepCall(c) ==
    IF c.ops = <<>> THEN [c EXCEPT !.done = TRUE]
    ELSE LET o == Head(c.ops) IN
         IF o.op = "fail"
         THEN [c EXCEPT !.err = o.err, !.done = TRUE, !.ops = <<>>]
         ELSE LET r == errorWriter_Write(c.sink, o.p) IN
              IF o.checked /\ r.err # NoErr
              THEN [c EXCEPT !.sink = r.w, !.err = r.err, !.done = TRUE, !.ops = <<>>]
              ELSE [c EXCEPT !.sink = r.w, !.ops = Tail(@)]

\* mutant: the place in the run is kept in a package-level variable, so a
\* step of one call also moves the others on
Advance_sharedCursor(cs, i) ==
    [j \in 1..Len(cs) |->
        IF j = i THEN StepCall(cs[j])
        ELSE IF cs[j].ops # <<>> THEN [cs[j] EXCEPT !.ops = Tail(@)] ELSE cs[j]]

\* call i takes a step, the other calls stand still
Advance(cs, i) == [cs EXCEPT ![i] = StepCall(@)]

\* the trees and sinks of the concurrent calls
MaxConcFail == 4

ConcPool ==
    {nestedP,
     CreateElement(elemName, <<emptyNode, CreateAttr(attrName, <<"<">>)>>),
     Group(<<CreateString(<<"a", "<">>), errorNode, CreateString(<<"a">>)>>),
     Map(<<4, 3, 1>>, fnContent),
     Doctype(nestedBr)}

\* two goroutines call Render, on the same tree or on two trees
StartCalls ==
    /\ pc = "init"
    /\ \E a \in ConcPool, b \in ConcPool, f1 \in 0..MaxConcFail, f2 \in 0..MaxConcFail :
         /\ tree' = a
         /\ inflight' = <<NewCall(a, f1), NewCall(b, f2)>>
    /\ pc' = "running"
    /\ UNCHANGED <<w, err, call, first, shared, resp, logged, serverVars>>

\* the scheduler lets one of the calls run up to its next write
RunCall ==
    /\ pc = "running"
    /\ \E i \in 1..Len(inflight) :
         /\ ~inflight[i].done
         /\ inflight' = Advance(inflight, i)
    /\ UNCHANGED <<tree, w, err, pc, call, first, shared, resp, logged, serverVars>>

NextConc ==
    \/ StartCalls
    \/ RunCall

SpecConc == Init /\ [][NextConc]_vars

\* ------------------------------------------------------------------
\* C1: Render returns a non-nil error exactly when some sink write or
\* descendant render failed, and the error is the first such failure,
\* unchanged; this covers the writes made while emitting an escaped text
\* and an escaped attribute value.
\* ------------------------------------------------------------------
C1_RenderReturnsFirstFailure == Rendered => err = FirstFailure(w.trace)

\* ------------------------------------------------------------------
\* C2: a successful Render of a non-void Element outputs "<" name, the
\* renderings of the attribute children in their relative order, ">",
\* the renderings of the other children in their relative order, then
\* "</" name ">"; where an attribute stands among the children does not
\* change the output.
\* ------------------------------------------------------------------
C2_AttributesBeforeContent ==
    (Rendered /\ tree.kind = "htmlElement" /\ ~tree.IsVoid
        /\ err = NoErr /\ ~FailedWrite(w.trace))
    => /\ w.buf = bLt \o tree.Name
                  \o Renderings(SelectSeq(tree.Children, AttributeVariant))
                  \o bGt
                  \o Renderings(SelectSeq(tree.Children, ContentVariant))
                  \o bLtSlash \o tree.Name \o bGt
       /\ w.buf = Rendering(CreateElement(tree.Name,
                      SelectSeq(tree.Children, AttributeVariant)
                      \o SelectSeq(tree.Children, ContentVariant)))

C2_Witness ==
    /\ Rendered /\ err = NoErr /\ NeverFails
    /\ tree = CreateElement(elemName, <<CreateString(<<"a">>), CreateAttr(attrName, <<"x">>)>>)
    /\ w.buf = <<"<", "d", " ", "c", "=", "\"", "x", "\"", ">", "a", "<", "/", "d", ">">>

\* ------------------------------------------------------------------
\* C3: a void Element outputs exactly "<" name attributes ">"; no
\* closing tag is written, no non-attribute child's Render is invoked,
\* and a non-attribute child that would fail does not make Render fail.
\* ------------------------------------------------------------------
C3_VoidElementDropsContent ==
    (Rendered /\ tree.kind = "htmlElement" /\ tree.IsVoid)
    => /\ \A i \in 2..Len(w.trace) : w.trace[i].ev # "enter"
       /\ err \in {NoErr, targetErr, errAttrRenderAttribute}
       /\ (err = NoErr /\ ~FailedWrite(w.trace))
            => w.buf = bLt \o tree.Name
                       \o Renderings(SelectSeq(tree.Children, AttributeVariant))
                       \o bGt
       /\ (NeverFails /\ \A i \in 1..Len(tree.Children) : tree.Children[i] # errorAttr)
            => err = NoErr

C3_Witness ==
    /\ Rendered /\ err = NoErr /\ NeverFails
    /\ tree = CreateElementVoid(elemName, <<errorNode, CreateAttr(attrName, <<"x">>)>>)
    /\ w.buf = <<"<", "d", " ", "c", "=", "\"", "x", "\"", ">">>

\* ------------------------------------------------------------------
\* The escaping policy, as the properties state it
\* ------------------------------------------------------------------

Special == {"'", "\"", "&", "<", ">", "NUL"}

ContainsSpecial(s) == \E i \in 1..Len(s) : s[i] \in Special

\* s with ' " & < > replaced by their entities and NUL by nul
EscapedWith(s, nul) ==
    Concat([i \in 1..Len(s) |->
        CASE s[i] = "\"" -> <<"&", "#", "3", "4", ";">>
          [] s[i] = "'" -> <<"&", "#", "3", "9", ";">>
          [] s[i] = "&" -> <<"&", "a", "m", "p", ";">>
          [] s[i] = "<" -> <<"&", "l", "t", ";">>
          [] s[i] = ">" -> <<"&", "g", "t", ";">>
          [] s[i] = "NUL" -> nul
          [] OTHER -> <<s[i]>>])

\* the numeric character references of NUL
NulEntities == {<<"&", "#", "0", ";">>, <<"&", "#", "x", "0", ";">>,
                <<"&", "#", "x", "0", "0", ";">>, <<"&", "#", "0", "0", ";">>}

\* NUL replaced by the replacement character U+FFFD
EscapedText(s) == EscapedWith(s, <<"U+FFFD">>)

NoRaw(out) == \A i \in 1..Len(out) : out[i] \notin {"<", ">", "\"", "'", "NUL"}

\* ` n="` and the closing quote around an attribute value
Quoted(n, v) == bSpace \o n \o bEqualsQuote \o v \o bQuote

\* ------------------------------------------------------------------
\* C4 (as stated): EscapedText(s) renders s with each occurrence of
\* ' " & < > and NUL replaced by its entity and every other character
\* unchanged, and an attribute value is escaped by the same policy.
\* ------------------------------------------------------------------
C4_EscapesToEntities ==
    (Rendered /\ NeverFails)
    => \E nul \in NulEntities :
         /\ tree.kind = "htmlSafe" => w.buf = EscapedWith(tree.s, nul)
         /\ (tree.kind = "htmlAttr" /\ tree.Value # <<>>)
              => w.buf = Quoted(tree.Name, EscapedWith(tree.Value, nul))

\* ------------------------------------------------------------------
\* C4 (amended): EscapedText(s) renders s with ' " & < > replaced by
\* their entities and NUL by the replacement character U+FFFD, every other
\* character unchanged and in order; an attribute value is escaped by the
\* same policy; RawText(s) renders exactly s; no raw < > " ' or NUL of s
\* appears in the output of EscapedText or inside a quoted attribute value.
\* ------------------------------------------------------------------
C4_EscapePolicy ==
    (Rendered /\ NeverFails)
    => /\ tree.kind = "htmlSafe"
            => w.buf = EscapedText(tree.s) /\ NoRaw(w.buf)
       /\ (tree.kind = "htmlAttr" /\ tree.Value # <<>>)
            => /\ w.buf = Quoted(tree.Name, EscapedText(tree.Value))
               /\ NoRaw(SubSeq(w.buf, Len(tree.Name) + 4, Len(w.buf) - 1))
       /\ tree.kind = "htmlRaw" => w.buf = tree.s

C4_Witness ==
    /\ Rendered /\ NeverFails /\ err = NoErr
    /\ tree = CreateString(<<"<", "a", "NUL">>)
    /\ w.buf = <<"&", "l", "t", ";", "a", "U+FFFD">>

\* ------------------------------------------------------------------
\* C5: the bytes written for s by the path guarded by needsEscaping
\* equal the bytes written by always running the escape routine on s,
\* and needsEscaping(s) is true exactly when s contains one of
\* ' " & < > NUL.
\* ------------------------------------------------------------------
C5_FastPathSameBytes ==
    Rendered
    => /\ tree.kind = "htmlSafe"
            => /\ needsEscaping(tree.s) <=> ContainsSpecial(tree.s)
               /\ NeverFails => w.buf = HTMLEscape(NewSink(0), tree.s).buf
       /\ (tree.kind = "htmlAttr" /\ tree.Value # <<>>)
            => /\ needsEscaping(tree.Value) <=> ContainsSpecial(tree.Value)
               /\ NeverFails
                    => w.buf = Quoted(tree.Name, HTMLEscape(NewSink(0), tree.Value).buf)

C5_Witness ==
    /\ Rendered /\ NeverFails /\ err = NoErr
    /\ tree = CreateString(<<"a", "a">>)
    /\ WritesOf(w.trace) = <<[ev |-> "write", p |-> <<"a", "a">>, ok |-> TRUE]>>

\* ------------------------------------------------------------------
\* C6: an attribute renders as a space and its name, and nothing more
\* when the value is empty, and as ` n="` escaped value `"` otherwise;
\* CreateAttrBoolean(n) and CreateAttr(n, "") give the same output.
\* ------------------------------------------------------------------
C6_AttributeForm ==
    (Rendered /\ NeverFails /\ tree.kind = "htmlAttr")
    => /\ err = NoErr
       /\ tree.Value = <<>> => w.buf = bSpace \o tree.Name
       /\ tree.Value # <<>> => w.buf = Quoted(tree.Name, EscapedText(tree.Value))
       /\ Rendering(CreateAttrBoolean(tree.Name)) = Rendering(CreateAttr(tree.Name, <<>>))
       /\ Rendering(CreateAttrBoolean(tree.Name)) = bSpace \o tree.Name

C6_Witness ==
    /\ Rendered /\ NeverFails /\ err = NoErr
    /\ tree = CreateAttr(attrName, <<>>)
    /\ w.buf = <<" ", "c">>

\* an entry that is not nil
Present(n) == ~Absent(n)

RECURSIVE WithoutNils(_)
WithoutNils(n) ==
    CASE n.kind = "htmlElement" ->
           [n EXCEPT !.Children =
               LET kept == SelectSeq(n.Children, Present)
               IN [i \in 1..Len(kept) |-> WithoutNils(kept[i])]]
      [] n.kind = "Group" ->
           [n EXCEPT !.nodes =
               LET kept == SelectSeq(n.nodes, Present)
               IN [i \in 1..Len(kept) |-> WithoutNils(kept[i])]]
      [] n.kind = "nodeMapper" ->
           LET NotNil(item) == n.fn[item] # nil
           IN [n EXCEPT !.items = SelectSeq(n.items, NotNil)]
      [] OTHER -> n

HasNilEntry(n) ==
    \/ n.kind = "htmlDoctype" /\ n.sibling = nil
    \/ WithoutNils(n) # n

\* ------------------------------------------------------------------
\* C7: a nil entry renders as if it were absent: a nil Node or a nil
\* attribute pointer in an Element's child list, a nil Node in a Group,
\* a nil returned by a Mapper transform, a nil Doctype child.  Output,
\* writes and error are those of the same tree with the nil entries
\* removed.
\* ------------------------------------------------------------------
C7_NilEntriesAreAbsent ==
    (Rendered /\ HasNilEntry(tree))
    => /\ err # nilDeref
       /\ LET r == NodeRender(WithoutNils(tree), NewSink(w.failOnNthWrite)) IN
          /\ r.err = err
          /\ r.w.buf = w.buf
          /\ WritesOf(r.w.trace) = WritesOf(w.trace)
       /\ (tree.kind = "htmlDoctype" /\ tree.sibling = nil)
            => /\ Len(WritesOf(w.trace)) = 1
               /\ NeverFails => w.buf = doctypeLiteral /\ err = NoErr

C7_Witness ==
    /\ Rendered /\ NeverFails /\ err = NoErr
    /\ tree = CreateElement(elemName, <<nil, nilHtmlAttr>>)
    /\ w.buf = <<"<", "d", ">", "<", "/", "d", ">">>

\* ------------------------------------------------------------------
\* C8: Group.Render renders its nodes in list order, the output being
\* the concatenation of their outputs; an empty Group writes nothing and
\* returns nil; when the k-th node's Render returns an error, Group.Render
\* returns that error and invokes Render on no node after the k-th.
\* ------------------------------------------------------------------
C8_GroupInOrderFailFast ==
    (Rendered /\ tree.kind = "Group")
    => /\ (NeverFails /\ err = NoErr) => w.buf = Renderings(tree.nodes)
       /\ tree.nodes = <<>> => (err = NoErr /\ w.writeCount = 0 /\ w.buf = <<>>)
       /\ err # NoErr
            => \E k \in 1..Len(tree.nodes) :
                 LET upTo == NodeRender(Group(SubSeq(tree.nodes, 1, k)),
                                        NewSink(w.failOnNthWrite))
                     before == NodeRender(Group(SubSeq(tree.nodes, 1, k - 1)),
                                          NewSink(w.failOnNthWrite))
                     inner == Inner(w.trace)
                 IN /\ before.err = NoErr
                    /\ upTo.err = err
                    /\ Inner(upTo.w.trace) = inner
                    /\ inner[Len(inner)] =
                         [ev |-> "exit", node |-> tree.nodes[k], err |-> err]

C8_Witness ==
    /\ Rendered /\ err = errNodeRender
    /\ tree = Group(<<errorNode, CreateString(<<"a">>)>>)
    /\ w.writeCount = 0

\* the Group of the nodes the transform yields for the items
Materialized(nm) == Group([i \in 1..Len(nm.items) |-> nm.fn[nm.items[i]]])

\* ------------------------------------------------------------------
\* C9: for every item list, transform and sink, Map(items, fn).Render
\* issues the same sequence of sink writes and returns the same error as
\* Group{fn(items[0]), ..., fn(items[n-1])}.Render.
\* ------------------------------------------------------------------
C9_MapperEqualsGroup ==
    (Rendered /\ tree.kind = "nodeMapper")
    => LET g == NodeRender(Materialized(tree), NewSink(w.failOnNthWrite)) IN
       /\ g.err = err
       /\ g.w.buf = w.buf
       /\ WritesOf(g.w.trace) = WritesOf(w.trace)

C9_Witness ==
    /\ Rendered /\ err = targetErr
    /\ tree = Map(<<1, 2>>, fnContent)
    /\ w.writeCount = 1

\* a call of the transform
IsFn(e) == e.ev = "fn"

\* ------------------------------------------------------------------
\* C10: during one Render of a Mapper the transform is invoked on the
\* items in list order, at most once per item; the transform of item i+1
\* is invoked only after the node of item i has finished rendering; no
\* transform is invoked when the Mapper is built; after the node of item
\* k returns an error the transform is invoked on no later item.
\* ------------------------------------------------------------------
C10_MapperLazyInOrder ==
    /\ pc = "built" => w.trace = <<>>
    /\ (Rendered /\ tree.kind = "nodeMapper")
       => LET inner == Inner(w.trace)
              calls == SelectSeq(inner, IsFn)
              pos == {i \in 1..Len(inner) : IsFn(inner[i])}
          IN /\ Len(calls) <= Len(tree.items)
             /\ \A j \in 1..Len(calls) :
                  calls[j].at = j /\ calls[j].item = tree.items[j]
             /\ \A i \in pos :
                  \* the produced node is rendered at once
                  /\ tree.fn[inner[i].item] # nil
                       => /\ i < Len(inner)
                          /\ inner[i + 1] = [ev |-> "enter", node |-> tree.fn[inner[i].item]]
                  \* the node of the item before has finished, without error
                  /\ inner[i].at > 1
                       => \/ /\ IsFn(inner[i - 1])
                             /\ tree.fn[inner[i - 1].item] = nil
                          \/ inner[i - 1] = [ev |-> "exit",
                                            node |-> tree.fn[tree.items[inner[i].at - 1]],
                                            err |-> NoErr]
             /\ err = NoErr => Len(calls) = Len(tree.items)
             /\ err # NoErr
                  => /\ calls # <<>>
                     /\ inner[Len(inner)] =
                          [ev |-> "exit",
                           node |-> tree.fn[tree.items[Len(calls)]],
                           err |-> err]

C10_Witness ==
    /\ Rendered /\ err = errNodeRender
    /\ tree = Map(<<3, 1>>, fnContent)
    /\ Len(SelectSeq(w.trace, IsFn)) = 1

\* ------------------------------------------------------------------
\* C11: Doctype(n).Render writes the literal <!DOCTYPE html> first and
\* then exactly the rendering of n; with a nil n it writes only the
\* literal and returns nil; when the write of the literal fails that
\* error is returned and n is not rendered; an error of n's Render is
\* returned unchanged.
\* ------------------------------------------------------------------
C11_DoctypeThenChild ==
    (Rendered /\ tree.kind = "htmlDoctype")
    => LET inner == Inner(w.trace)
           N == w.failOnNthWrite
       IN /\ inner # <<>>
          /\ inner[1].ev = "write" /\ inner[1].p = doctypeLiteral
          /\ ~inner[1].ok
               => (err = targetErr /\ Len(inner) = 1 /\ w.buf = <<>>)
          /\ (inner[1].ok /\ tree.sibling = nil)
               => (err = NoErr /\ Len(inner) = 1 /\ w.buf = doctypeLiteral)
          /\ (inner[1].ok /\ tree.sibling # nil)
               => /\ inner[2] = [ev |-> "enter", node |-> tree.sibling]
                  /\ inner[Len(inner)] =
                       [ev |-> "exit", node |-> tree.sibling, err |-> err]
                  /\ NeverFails => w.buf = doctypeLiteral \o Rendering(tree.sibling)
                  /\ LET alone == NodeRender(tree.sibling,
                                             NewSink(IF N = 0 THEN 0 ELSE N - 1))
                     IN /\ alone.err = err
                        /\ w.buf = doctypeLiteral \o alone.w.buf
                        /\ WritesOf(alone.w.trace) = Tail(WritesOf(w.trace))

C11_Witness ==
    /\ Rendered /\ err = errNodeRender
    /\ tree = Doctype(errorNode)
    /\ w.buf = doctypeLiteral

\* the nodes a render of t can reach
RECURSIVE Subnodes(_)
Subnodes(t) ==
    {t} \cup
    CASE t.kind = "htmlElement" -> UNION {Subnodes(t.Children[i]) : i \in 1..Len(t.Children)}
      [] t.kind = "Group" -> UNION {Subnodes(t.nodes[i]) : i \in 1..Len(t.nodes)}
      [] t.kind = "nodeMapper" -> UNION {Subnodes(t.fn[t.items[i]]) : i \in 1..Len(t.items)}
      [] t.kind = "htmlDoctype" -> Subnodes(t.sibling)
      [] OTHER -> {}

\* no Render or RenderAttribute call of the trace is on node n
NeverInvoked(trace, n) ==
    \A i \in 1..Len(trace) : trace[i].ev \in {"enter", "exit", "attr"} => trace[i].node # n

\* ------------------------------------------------------------------
\* C12: If(c, n) returns n itself when c is true and the shared empty
\* node when c is false, so rendering If(false, n) writes no bytes and
\* never invokes n's Render; Ifelse(c, a, b) returns a when c is true and
\* b when c is false, and the node not chosen is never rendered.
\* ------------------------------------------------------------------
C12_IfSelects ==
    /\ (pc # "init" /\ call.op = "If")
         => tree = (IF call.c THEN call.a ELSE emptyNode)
    /\ (pc # "init" /\ call.op = "Ifelse")
         => tree = (IF call.c THEN call.a ELSE call.b)
    /\ (Rendered /\ call.op = "If" /\ ~call.c)
         => /\ w.buf = <<>>
            /\ NeverInvoked(w.trace, call.a)
    /\ (Rendered /\ call.op = "Ifelse")
         => LET other == IF call.c THEN call.b ELSE call.a IN
            other \notin Subnodes(tree) => NeverInvoked(w.trace, other)

C12_Witness ==
    /\ Rendered /\ NeverFails /\ err = NoErr
    /\ call = [op |-> "If", c |-> FALSE, a |-> errorNode, b |-> nil]
    /\ tree = emptyNode
    /\ w.buf = <<>>

\* ------------------------------------------------------------------
\* C13: rendering the shared empty node, the value If returns when its
\* condition is false, contributes zero bytes and returns no error for
\* every sink, also for a sink whose next write fails.
\* ------------------------------------------------------------------
C13_EmptyNodeNeverErrors ==
    (Rendered /\ call.op = "If" /\ ~call.c)
    => (err = NoErr /\ w.buf = <<>>)

\* no write is issued after a failed one
StopsAtFailure(trace) ==
    \A i \in 1..Len(trace), j \in 1..Len(trace) :
        (i < j /\ IsWrite(trace[i]) /\ ~trace[i].ok) => ~IsWrite(trace[j])

\* the bytes the sink has accepted by the end of a trace
RECURSIVE Accepted(_)
Accepted(trace) ==
    IF trace = <<>> THEN <<>>
    ELSE IF IsWrite(Head(trace)) /\ Head(trace).ok
         THEN Head(trace).p \o Accepted(Tail(trace))
         ELSE Accepted(Tail(trace))

IsPrefix(p, s) == Len(p) <= Len(s) /\ SubSeq(s, 1, Len(p)) = p

\* ------------------------------------------------------------------
\* C14: when the sink fails on its N-th write no write is issued after
\* the failing one, so nothing is written for later siblings or closing
\* tags; at every point of every Render call, also one that ends in an
\* error, the bytes the sink has accepted form a prefix of the output the
\* same tree produces on a never-failing sink.
\* ------------------------------------------------------------------
C14_NoWriteAfterFailure ==
    Rendered
    => /\ StopsAtFailure(w.trace)
       /\ \A k \in 0..Len(w.trace) :
            IsPrefix(Accepted(SubSeq(w.trace, 1, k)), Rendering(tree))

RenderStep ==
    /\ pc \in {"built", "rendered", "rerendered"}
    /\ pc' \in {"rendered", "rerendered", "served"}

Alone(c) == NodeRender(c.node, NewSink(c.sink.failOnNthWrite))

Served == pc = "served"

IsSuffix(p, s) == Len(p) <= Len(s) /\ SubSeq(s, Len(s) - Len(p) + 1, Len(s)) = p

\* ------------------------------------------------------------------
\* C18: every response of the adapter has one of exactly two shapes:
\* status 200 with the complete rendering of the Node the callback
\* returned as body, or status 500 with only the fixed text "Internal
\* Server Error" as body; for a node that renders fully, a nil node, a
\* render failing before any byte was written and a render failing after
\* some bytes were written to the response.
\* ------------------------------------------------------------------
C18_TwoResponseShapes ==
    Served
    => \/ /\ resp.Code = StatusOK
          /\ resp.node # nil
          /\ err = NoErr
          /\ resp.Body = Rendering(resp.node)
       \/ /\ resp.Code = StatusInternalServerError
          /\ resp.Body = errorBody

\* ------------------------------------------------------------------
\* C19: when the callback returns a nil Node the adapter never calls
\* Render and responds with status 500 and the body "Internal Server
\* Error"; when Render returns an error the adapter responds with status
\* 500 and the body "Internal Server Error"; the adapter never removes or
\* rewrites bytes the render already wrote to the response.
\* ------------------------------------------------------------------
C19_ErrorsBecome500 ==
    Served
    => /\ resp.node = nil
            => /\ w.trace = <<>>
               /\ resp.Code = StatusInternalServerError
               /\ resp.Body = errorBody
       /\ (resp.node # nil /\ err # NoErr)
            => /\ resp.Code = StatusInternalServerError
               /\ IsSuffix(errorBody, resp.Body)
       /\ IsPrefix(w.buf, resp.Body)

\* ------------------------------------------------------------------
\* C20: whenever the adapter turns a render error or a nil Node into a
\* 500 response it reports the underlying cause, the error Render
\* returned, to a logging collaborator; the cause is never discarded
\* silently.
\* ------------------------------------------------------------------
C20_CauseIsLogged ==
    (Served /\ (resp.node = nil \/ err # NoErr))
    => /\ logged # <<>>
       /\ err # NoErr => \E i \in 1..Len(logged) : logged[i] = err

Stringed == pc = "stringed"

\* the error Render returns on a buffer that never fails
RenderError(n) == NodeRender(n, NewSink(0)).err

\* ------------------------------------------------------------------
\* C21: for every variant and every tree, String() returns exactly the
\* bytes that Render writes into a buffer that never fails, the partial
\* output written before a descendant's Render returned an error
\* included.
\* ------------------------------------------------------------------
C21_StringIsRender == Stringed => w.buf = Rendering(tree)

\* String() of a tree whose render fails after some bytes were written
C21_Witness ==
    /\ Stringed
    /\ RenderError(tree) # NoErr
    /\ w.buf # <<>>

\* ------------------------------------------------------------------
\* The Server: a mux and a list of middleware.  A middleware is named by
\* a string; a handler is the list of the middleware a request passes
\* through, outermost first, with the mux at its end.
\* ------------------------------------------------------------------

\* most middleware registered on one Server, and most Handler() calls
MaxUse == 3
MaxHandlers == 2

Middlewares == {"LogRequest", "RecoverPanic", "SecureHeaders"}

mux == <<"mux">>

\* slices.Reverse
Reverse(s) == [i \in 1..Len(s) |-> s[Len(s) + 1 - i]]

\* for i := range s.middleware { m := s.middleware[i]; h = m(h) }
RECURSIVE Wrap(_, _, _)
Wrap(mw, i, h) ==
    IF i > Len(mw) THEN h ELSE Wrap(mw, i + 1, <<mw[i]>> \o h)

\* mutant: the middleware is applied in the order of the list
Server_Handler_noReverse(mw) ==
    [middleware |-> mw, h |-> Wrap(mw, 1, mux)]

\* (s *Server) Handler: the list as the call leaves it, and the handler
Server_Handler(mw) ==
    [middleware |-> Reverse(mw), h |-> Wrap(Reverse(mw), 1, mux)]

\* s.Use(middleware...), the call NewServer makes included
Server_Use ==
    /\ Len(registered) < MaxUse
    /\ \E ms \in SeqsUpTo(Middlewares, MaxUse - Len(registered)) :
         /\ ms # <<>>
         /\ middleware' = middleware \o ms
         /\ registered' = registered \o ms
    /\ UNCHANGED <<handlers, domVars>>

\* h := s.Handler()
Server_HandlerCall ==
    /\ Len(handlers) < MaxHandlers
    /\ \E r \in {Server_Handler(middleware)} :
         /\ middleware' = r.middleware
         /\ handlers' = Append(handlers, [by |-> "Handler", h |-> r.h, after |-> registered])
    /\ UNCHANGED <<registered, domVars>>

\* s.Serve(addr): Serve(addr, s.Handler()), until the server is shut down
Server_Serve ==
    /\ Len(handlers) < MaxHandlers
    /\ \E r \in {Server_Handler(middleware)} :
         /\ middleware' = r.middleware
         /\ handlers' = Append(handlers, [by |-> "Serve", h |-> r.h, after |-> registered])
    /\ UNCHANGED <<registered, domVars>>

NextServer ==
    \/ Server_Use
    \/ Server_HandlerCall
    \/ Server_Serve

SpecServer == Init /\ [][NextServer]_vars

\* ------------------------------------------------------------------
\* C22: for any sequence of Use calls registering the middleware m1, m2,
\* ..., mn on a Server, the handler that Handler() then returns wraps the
\* mux with the earliest registered middleware outermost: a request
\* passes through m1, then m2, ..., then mn, then the mux.
\* ------------------------------------------------------------------
C22_EarliestOutermost ==
    handlers # <<>> => handlers[1].h = handlers[1].after \o mux

\* a handler over two different middleware
C22_Witness ==
    /\ handlers # <<>>
    /\ Len(handlers[1].after) >= 2
    /\ handlers[1].after[1] # handlers[1].after[2]
    /\ handlers[1].h[1] = handlers[1].after[1]

\* the events of a Render call's trace that belong to the call itself and
\* not to the Render of a descendant; the "enter" of a child is kept as
\* the mark of the child's Render being invoked
RECURSIVE TopEvents(_, _, _)
TopEvents(trace, i, depth) ==
    IF i > Len(trace) THEN <<>>
    ELSE IF trace[i].ev = "enter"
         THEN (IF depth = 1 THEN <<trace[i]>> ELSE <<>>) \o TopEvents(trace, i + 1, depth + 1)
    ELSE IF trace[i].ev = "exit" THEN TopEvents(trace, i + 1, depth - 1)
    ELSE (IF depth = 1 THEN <<trace[i]>> ELSE <<>>) \o TopEvents(trace, i + 1, depth)

\* the events of the Element under render, from its first write on
OwnEvents == TopEvents(w.trace, 1, 0)

IsAttrCall(e) == e.ev = "attr"
IsChildCall(e) == e.ev = "enter"
IsGtWrite(e) == IsWrite(e) /\ e.p = bGt
IsLtSlashWrite(e) == IsWrite(e) /\ e.p = bLtSlash

NodeOf(e) == e.node

\* the children handed to the attribute loop
IsAttributeChild(n) == n # nil /\ IsHtmlAttributer(n)

Positions(es, P(_)) == {i \in 1..Len(es) : P(es[i])}

Nodes(es) == [i \in 1..Len(es) |-> es[i].node]

\* ------------------------------------------------------------------
\* C23: in an Element every attribute child is rendered, through its
\* RenderAttribute method, before ">" is written and before any
\* non-attribute child is rendered; when an attribute child's
\* RenderAttribute fails, Render returns that error, writes neither ">"
\* nor any content nor the closing tag, and invokes no non-attribute
\* child's Render, whatever the order of the children in the list.
\* ------------------------------------------------------------------
C23_AttributesFirst ==
    (Rendered /\ tree.kind = "htmlElement")
    => LET es == OwnEvents
           A == Positions(es, IsAttrCall)
           G == Positions(es, IsGtWrite)
           E == Positions(es, IsChildCall)
           last == es[Len(es)]
       IN /\ \A a \in A : \A g \in G \cup E : a < g
          /\ \A e \in E : \E g \in G : g < e /\ es[g].ok
          /\ G # {} => Nodes(SelectSeq(es, IsAttrCall))
                          = SelectSeq(tree.Children, IsAttributeChild)
          /\ \* RenderAttribute of the attribute called last failed: it is an
             \* attribute that always fails, or its write was refused and
             \* nothing came after it
             (A # {} /\ \/ (IsAttrCall(last) /\ last.node = errorAttr)
                         \/ (IsWrite(last) /\ ~last.ok /\ last.p # bGt /\ G = {}))
               => /\ err = (IF IsWrite(last) THEN targetErr ELSE errAttrRenderAttribute)
                  /\ G = {}
                  /\ E = {}
                  /\ Positions(es, IsLtSlashWrite) = {}
                  /\ w.buf = Accepted(es)
          /\ \A i \in 1..Len(es) :
                (IsAttrCall(es[i]) /\ es[i].node = errorAttr) => i = Len(es)

\* an attribute that fails, listed after a text child
C23_Witness ==
    /\ Rendered
    /\ tree = CreateElement(elemName, <<CreateString(<<"a">>), errorAttr>>)
    /\ err = errAttrRenderAttribute
    /\ w.buf = <<"<", "d">>

\* the Write calls of the render in the state
Writes == WritesOf(w.trace)

Refused == {i \in 1..Len(Writes) : ~Writes[i].ok}

RECURSIVE PlainNode(_)
PlainNode(n) ==
    CASE n.kind = "htmlElement" ->
           \A i \in 1..Len(n.Children) : PlainNode(n.Children[i])
      [] n.kind = "htmlAttr" -> ~needsEscaping(n.Value)
      [] n.kind = "htmlSafe" -> ~needsEscaping(n.s)
      [] n.kind \in {"nil", "nilHtmlAttr"} -> TRUE
      [] OTHER -> FALSE

\* the pieces of an attribute: a space and its name and, when its value is
\* non-empty, the equals sign with the quote, the value and the quote
AttrPieces(a) ==
    IF a.kind = "nilHtmlAttr" THEN <<>>
    ELSE <<bSpace, a.Name>>
         \o (IF a.Value = <<>> THEN <<>> ELSE <<bEqualsQuote, a.Value, bQuote>>)

\* the pieces of a plain node in content position
RECURSIVE Pieces(_)
Pieces(n) ==
    CASE n.kind = "htmlSafe" -> <<n.s>>
      [] n.kind = "htmlElement" ->
           <<bLt, n.Name>>
           \o Concat([i \in 1..Len(n.Children) |->
                        IF AttributeVariant(n.Children[i])
                        THEN AttrPieces(n.Children[i]) ELSE <<>>])
           \o <<bGt>>
           \o (IF n.IsVoid THEN <<>>
               ELSE Concat([i \in 1..Len(n.Children) |->
                              IF ContentVariant(n.Children[i])
                              THEN Pieces(n.Children[i]) ELSE <<>>])
                    \o <<bLtSlash, n.Name, bGt>>)
      [] OTHER -> <<>>

\* ------------------------------------------------------------------
\* C25: for an Element whose strings need no escaping, Render issues one
\* sink write per piece, in this order: "<", name, then for each
\* attribute a space and its name and, when its value is non-empty, the
\* equals sign with the quote, the value and the quote, then ">", then
\* the writes of the content children, then "</", name, ">".  So an
\* attribute with a non-empty value costs exactly 5 writes, a boolean
\* attribute 2, a text 1, and a sink that fails on write N fails exactly
\* at the N-th piece of this sequence.
\* ------------------------------------------------------------------
C25_OneWritePerPiece ==
    (Rendered /\ tree.kind = "htmlElement" /\ PlainNode(tree))
    => LET pieces == Pieces(tree)
           N == w.failOnNthWrite
           fails == N \in 1..Len(pieces)
           k == IF fails THEN N ELSE Len(pieces)
       IN /\ Len(Writes) = k
          /\ \A i \in 1..k : Writes[i].p = pieces[i]
          /\ \A i \in 1..k : Writes[i].ok <=> ~(fails /\ i = N)
          /\ err = (IF fails THEN targetErr ELSE NoErr)

\* the write of ">" after an attribute with a value is the 8th write
C25_Witness ==
    /\ Rendered
    /\ tree = CreateElement(elemName, <<CreateAttr(attrName, <<"x">>), CreateString(<<"a">>)>>)
    /\ w.failOnNthWrite = 1 + 1 + 5 + 1
    /\ err = targetErr
    /\ w.buf = <<"<", "d", " ", "c", "=", "\"", "x", "\"">>

\* the factories the data model lists as building void elements
VoidFactories ==
    {"Area", "Base", "Br", "Col", "Embed", "Hr", "Iframe", "Img", "Input", "Link",
     "Meta", "Param", "Source", "Track"}

FromFactory == call.op = "Factory"

\* ------------------------------------------------------------------
\* C26: the factories Area, Base, Br, Col, Embed, Hr, Iframe, Img, Input,
\* Link, Meta, Param, Source and Track build void elements, rendered as
\* "<" name attributes ">" with no closing tag and no content; every
\* other element factory, Wbr included, builds a non-void element
\* rendered as "<" name attributes ">" content "</" name ">".
\* ------------------------------------------------------------------
C26_VoidFactories ==
    /\ VoidFactories \subseteq {f.fn : f \in ElementFactories}
    /\ (Rendered /\ FromFactory /\ NeverFails)
         => \E f \in ElementFactories :
              /\ tree.Name = f.name
              /\ err = NoErr
              /\ w.buf = bLt \o f.name
                         \o Renderings(SelectSeq(tree.Children, AttributeVariant))
                         \o bGt
                         \o (IF f.fn \in VoidFactories THEN <<>>
                             ELSE Renderings(SelectSeq(tree.Children, ContentVariant))
                                  \o bLtSlash \o f.name \o bGt)

\* Wbr(Text("a"), attribute) keeps its content and gets a closing tag
C26_Witness ==
    /\ Rendered /\ FromFactory /\ NeverFails
    /\ tree.Name = <<"w", "b", "r">>
    /\ w.buf = <<"<", "w", "b", "r", " ", "c", "=", "\"", "x", "\"", ">", "a",
                 "<", "/", "w", "b", "r", ">">>

\* the text of an attribute: a space, the name and, for a non-empty value,
\* the value between quotes after an equals sign
AttrText(a) ==
    <<" ">> \o a.Name
    \o (IF a.Value = <<>> THEN <<>> ELSE <<"=", "\"">> \o a.Value \o <<"\"">>)

IsDirectAttr(n) == n.kind = "htmlAttr"
IsNotDirectAttr(n) == n.kind # "htmlAttr"

\* what a child that is not an attribute puts after ">": the texts of the
\* attributes it holds, after the doctype literal for a Doctype
ContentText(n) ==
    CASE n.kind = "Group" -> Concat([i \in 1..Len(n.nodes) |-> AttrText(n.nodes[i])])
      [] n.kind = "nodeMapper" -> Concat([i \in 1..Len(n.items) |-> AttrText(n.fn[n.items[i]])])
      [] n.kind = "htmlDoctype" -> doctypeLiteral \o AttrText(n.sibling)
      [] n.kind = "htmlSafe" -> n.s

Texts(ns, T(_)) == Concat([i \in 1..Len(ns) |-> T(ns[i])])

Wrapping == call.op = "Wrap"

\* ------------------------------------------------------------------
\* C27: an Element places in attribute position only its direct children
\* that are attribute nodes: an attribute wrapped in a Group, produced by
\* a Mapper or held by a Doctype child is rendered in content position,
\* after ">", as the text of the attribute (space, name, equals sign,
\* quoted value); for a void element such a wrapped attribute is
\* dropped.  If(true, attr) is placed in attribute position, because If
\* returns the attribute itself.
\* ------------------------------------------------------------------
C27_OnlyDirectAttributes ==
    (Rendered /\ Wrapping /\ NeverFails)
    => /\ err = NoErr
       /\ w.buf = <<"<">> \o tree.Name
                  \o Texts(SelectSeq(tree.Children, IsDirectAttr), AttrText)
                  \o <<">">>
                  \o (IF tree.IsVoid THEN <<>>
                      ELSE Texts(SelectSeq(tree.Children, IsNotDirectAttr), ContentText)
                           \o <<"<", "/">> \o tree.Name \o <<">">>)
       /\ \A i \in 1..Len(tree.Children) :
            tree.Children[i] = If(TRUE, call.a) => IsDirectAttr(tree.Children[i])

\* an attribute inside a Group comes out after ">"
C27_Witness ==
    /\ Rendered /\ Wrapping /\ NeverFails
    /\ tree = CreateElement(elemName, <<Group(<<wrappedAttr>>)>>)
    /\ w.buf = <<"<", "d", ">", " ", "c", "=", "\"", "x", "\"", "<", "/", "d", ">">>

\* characters that end or break a name in the output
NameBreakers == {"<", ">", "&", "'", "\"", " ", "/", "=", "!", "NUL"}

PlainName(name) ==
    name # <<>> /\ \A i \in 1..Len(name) : name[i] \notin NameBreakers

\* every Element and attribute of the tree has a plain name
PlainNames(t) ==
    \A n \in Subnodes(t) :
        n.kind \in {"htmlElement", "htmlAttr"} => PlainName(n.Name)

\* no raw text in the tree, but for the empty node that If gives
NoRawText(t) == \A n \in Subnodes(t) : n.kind = "htmlRaw" => n = emptyNode

\* the names of the void Elements of the tree
VoidNames(t) == {n.Name : n \in {m \in Subnodes(t) : m.kind = "htmlElement" /\ m.IsVoid}}

\* the first position from i on that holds a character of S
NextOf(buf, i, S) ==
    IF \E j \in i..Len(buf) : buf[j] \in S
    THEN CHOOSE j \in i..Len(buf) : buf[j] \in S /\ \A k \in i..(j - 1) : buf[k] \notin S
    ELSE Len(buf) + 1

\* reads the output from position i with the names of the Elements open so
\* far: an opening tag of a non-void name is pushed, a closing tag must
\* name the last one pushed, the doctype is passed over
RECURSIVE WellNested(_, _, _, _)
WellNested(buf, i, open, voids) ==
    IF i > Len(buf) THEN open = <<>>
    ELSE IF buf[i] # "<" THEN WellNested(buf, i + 1, open, voids)
    ELSE LET gt == NextOf(buf, i, {">"}) IN
         IF gt > Len(buf) THEN FALSE
         ELSE IF buf[i + 1] = "!" THEN WellNested(buf, gt + 1, open, voids)
         ELSE IF buf[i + 1] = "/"
              THEN LET name == SubSeq(buf, i + 2, gt - 1) IN
                   /\ open # <<>>
                   /\ open[Len(open)] = name
                   /\ name \notin voids
                   /\ WellNested(buf, gt + 1, SubSeq(open, 1, Len(open) - 1), voids)
              ELSE LET name == SubSeq(buf, i + 1, NextOf(buf, i, {" ", ">"}) - 1) IN
                   WellNested(buf, gt + 1,
                              IF name \in voids THEN open ELSE Append(open, name), voids)

\* ------------------------------------------------------------------
\* C28: for every tree built without RawText whose tag and attribute
\* names are plain identifiers, the output of a successful Render is
\* well nested: every closing tag closes the most recently opened and
\* still unclosed non-void element of the same name, void elements are
\* never closed, and no element is left open at the end of the output.
\* ------------------------------------------------------------------
C28_WellNested ==
    (Rendered /\ err = NoErr /\ NoRawText(tree) /\ PlainNames(tree))
    => WellNested(w.buf, 1, <<>>, VoidNames(tree))

\* an Element over a nested Element with an escaped text and a void Element
C28_Witness ==
    /\ Rendered /\ err = NoErr /\ NeverFails
    /\ tree = CreateElement(elemName, <<nestedP, nestedBr>>)
    /\ WellNested(w.buf, 1, <<>>, {<<"b", "r">>})
    /\ ~WellNested(w.buf, 1, <<>>, {})

Named == call.op \in {"CreateElement", "CreateElementVoid", "CreateAttr", "Data", "Aria"}

\* the name as it has to appear in the output
NameWritten ==
    CASE call.op = "Data" -> <<"d", "a", "t", "a", "-">> \o call.name
      [] call.op = "Aria" -> <<"a", "r", "i", "a", "-">> \o call.name
      [] OTHER -> call.name

\* ------------------------------------------------------------------
\* C29: Element tag names and attribute names, the suffix given to Data
\* and Aria included, are written to the sink verbatim and are never
\* escaped or validated, whatever characters they contain; only
\* attribute values and EscapedText content go through the escaping
\* policy.
\* ------------------------------------------------------------------
C29_NamesVerbatim ==
    (Rendered /\ Named /\ NeverFails)
    => /\ err = NoErr
       /\ Writes[2].p = NameWritten
       /\ tree.kind = "htmlElement"
            => w.buf = <<"<">> \o NameWritten \o <<">">>
                       \o (IF tree.IsVoid THEN <<>>
                           ELSE <<"<", "/">> \o NameWritten \o <<">">>)
       /\ tree.kind = "htmlAttr"
            => w.buf = <<" ">> \o NameWritten
                       \o (IF tree.Value = <<>> THEN <<>>
                           ELSE <<"=", "\"">> \o EscapedText(tree.Value) \o <<"\"">>)

\* Data("<", "<"): the suffix is written as given, the value is escaped
C29_Witness ==
    /\ Rendered /\ NeverFails
    /\ call.op = "Data" /\ call.name = <<"<">>
    /\ w.buf = <<" ", "d", "a", "t", "a", "-", "<", "=", "\"", "&", "l", "t", ";", "\"">>

\* ------------------------------------------------------------------
\* C30: Handler() leaves the registered middleware list of the Server
\* unchanged, so for any interleaving of Use, Handler and Serve calls
\* every handler returned applies the middleware in the same order:
\* calling Handler() twice gives the same wrapping order, and middleware
\* registered with Use after a Handler() call is ordered after all
\* earlier registrations.
\* ------------------------------------------------------------------
C30_HandlerKeepsList ==
    /\ middleware = registered
    /\ \A i \in 1..Len(handlers) : handlers[i].h = handlers[i].after \o mux

====
